---- MODULE Spec2Model ----
(***************************************************************************)
(* Model of the Modbus stress harness: the threaded connection pool        *)
(* (core/connection.py, ModbusConnectionPool), its singleton construction, *)
(* the fault-injection teardown used by the multi-master test, and the     *)
(* persistent-connection manager, the asyncio connection list              *)
(* (core/async_connection.py), the cycle schedulers and busy waits of the  *)
(* two clients (core/client.py, core/async_client.py) and their            *)
(* statistics.                                                             *)
(*                                                                         *)
(* A handler that blocks (on a lock, on a transport round trip, on a       *)
(* sleep) is split at the blocking points so that other threads can        *)
(* interleave there; the code between two blocking points is one step.     *)
(*                                                                         *)
(* Specifications:                                                         *)
(*   Spec        the pool of connection.py used by the worker threads      *)
(*   SpecSolo    one caller doing get_connection / release_connection      *)
(*               back to back on every pool state                          *)
(*   SpecCtor    racing ModbusConnectionPool() constructions               *)
(*   SpecFault   Spec plus the multi-master test's close_all teardown      *)
(*   SpecPersist the persistent-connection manager                         *)
(*   SpecAsyncInit, SpecAsync                                              *)
(*               tasks on the asyncio connection list, without and with    *)
(*               close_all                                                 *)
(*   SpecSched, SpecSchedFair                                              *)
(*               the cycle loops and busy waits, the second with a clock   *)
(*               that keeps advancing                                      *)
(*   SpecStats   the statistics of one client and its report               *)
(*   SpecMasters, SpecMastersFair                                          *)
(*               the multi-master test: coordinator and worker threads     *)
(*   SpecWorker  run_test of the threaded client on the pool               *)
(*   SpecAsyncRun                                                          *)
(*               run_test of the asyncio client                            *)
(*                                                                         *)
(* Pool time is in whole seconds, scheduler time in performance-counter    *)
(* ticks.                                                                  *)
(***************************************************************************)
EXTENDS Integers, Sequences, FiniteSets, TLC

\* ------------------------------------------------------------------ bounds
NumThreads == 4
MaxConns == 4
MaxTime == 64
NumTasks == 2
MaxCounter == 16
MaxSamples == 3
FloatBits == 4

\* ------------------------------------------------------- program constants
CONNECTION_POOL_SIZE == 3
HEARTBEAT_TIMEOUT == 30
MAX_RETRIES == 3
max_retries == 3
\* QueryPerformanceFrequency, ticks per second: a multiple of 1000 on the machines meant.
frequency == 4000
\* _busy_wait_1ms's default timeout, seconds
DEFAULT_TIMEOUT == 5
\* The cycles the jitter is taken over.
JITTER_WINDOW == 100
\* warmup_cycles of the async run_test
WARMUP_CYCLES == 10
\* The operations the async run_test gathers in a cycle.
GATHER_SIZE == 3
None == 0
Threads == 1..NumThreads
Conns == 1..MaxConns
LockIds == 1..NumThreads
SoloCaller == 1
Tasks == 1..NumTasks
\* settings.BUSY_WAIT_PRECISION, 0.001 s, in ticks
BUSY_WAIT_PRECISION == frequency \div 1000
VARIABLES
    sock,         \* [Conns -> {"none","open","closed"}]: the transport session of a connection
    healthy,      \* [Conns -> BOOLEAN]: the endpoint answers a read on this session without error
    kind,         \* [Conns -> BOOLEAN]: created by _create_connection(persistent=True)
    instance,     \* ModbusConnectionPool._instance (None or the one object)
    initialized,  \* instance.__initialized
    pool_of,      \* [Threads -> instance or None]: the client's self.pool
    pool,         \* self._pool, the free collection
    lock,         \* identity of the lock object in self._lock (None: not yet set)
    lock_owner,   \* [LockIds -> Threads \cup {None}]: who holds each lock object
    pc,           \* [Threads -> position of the thread]
    conn,         \* [Threads -> Conns \cup {None}]: the caller's local `conn`
    size_before,  \* len(self._pool) when the solo caller's last get_connection began (-1: none yet)
    persistent_conn,  \* self._persistent_conn
    persistent_lock,  \* holder of self._persistent_lock
    last_heartbeat,   \* self._last_heartbeat
    now,              \* time.time()
    retry_count,      \* [Threads -> 0..MAX_RETRIES]: get_persistent_connection's local retry_count
    sleeps,           \* the time.sleep delays of the get_persistent_connection call in progress or last ended
    ret,              \* how the last persistent-connection call ended
    connections,        \* AsyncModbusConnection._connections
    async_initialized,  \* AsyncModbusConnection._initialized
    async_lock,         \* holder of AsyncModbusConnection._lock
    task_pc,            \* [Tasks -> where the task is suspended]
    call,               \* [Tasks -> the pool coroutine the task is in]
    building,           \* the clients made so far by the comprehension of initialize
    attempt,            \* [Tasks -> get_connection's loop variable]
    rebuilds,           \* [Tasks -> builds started by line 77 of the get_connection call in progress]
    close_index,        \* close_all's loop variable, counted from 1
    close_error,        \* the last slot whose close() raised in the close_all in progress (0: none)
    async_ret,          \* the error the last ended async pool call raised ("none": it returned)
    counter,            \* QueryPerformanceCounter
    wait,               \* the busy wait in progress or last ended
    cycle,              \* the run_test loop: whose it is, where it is, its cycle_start
    client,             \* whose statistics these are: "none", "sync" or "async"
    total_requests,     \* stats["总请求数"]
    success_requests,   \* stats["成功请求"]
    failed_requests,    \* stats["失败请求"]
    latencies,          \* stats["延迟记录"] (sync), stats["报文延迟统计"]["所有报文"] (async)
    cycles,             \* stats["周期记录"]
    jitter,             \* stats["周期统计"]["周期抖动"]
    percentiles,        \* stats["延迟百分位"]: p50, p95, p99
    report,             \* what _generate_report made
    coordinator,        \* test_multiple_masters: which loop it is in and at which thread
    worker,             \* [Threads -> where the thread of master_worker is]
    disconnect_prob,    \* [Threads -> config["disconnect_prob"], in thousandths]
    run_pc,             \* where run_test is
    new_conn,           \* _handle_connection_error's new_conn
    ops_done,           \* operations of the current gather that have ended
    warmup_cycles,      \* the async run_test's warmup_cycles
    completed           \* cycles of the async run_test that have ended

connVars == <<sock, healthy, kind>>
ctorVars == <<instance, initialized, pool_of>>
poolVars == <<pool, lock, lock_owner>>
threadVars == <<pc, conn>>
obsVars == <<size_before>>
persVars == <<persistent_conn, persistent_lock, last_heartbeat, now, retry_count, sleeps, ret>>
syncVars == <<ctorVars, poolVars, threadVars, obsVars, persVars>>
asyncVars == <<connections, async_initialized, async_lock, task_pc, call, building, attempt, rebuilds,
               close_index, close_error, async_ret>>
statVars == <<client, total_requests, success_requests, failed_requests, latencies, cycles, jitter,
              percentiles, report>>
testVars == <<coordinator, worker, disconnect_prob, run_pc, new_conn, ops_done, warmup_cycles, completed>>
otherVars == <<asyncVars, counter, wait, cycle, statVars, testVars>>
outsideRun == <<ctorVars, obsVars, persVars, asyncVars, counter, wait, cycle, coordinator, worker,
               disconnect_prob>>

vars == <<connVars, ctorVars, poolVars, threadVars, obsVars, otherVars, persVars>>

\* ------------------------------------------------------------- transport
\* The next unused connection identity (a fresh ModbusTcpClient object).
FreshConn == CHOOSE c \in Conns : sock[c] = "none" /\ \A d \in Conns : sock[d] = "none" => c <= d

CanAllocate == \E c \in Conns : sock[c] = "none"

\* conn.close()
Close(s, c) == [s EXCEPT ![c] = "closed"]

\* A closed session answers nothing.
Dead(h, s) == [c \in Conns |-> h[c] /\ s[c] = "open"]

\* _test_connection: a real read round trip; an exception or an error response is False.
test_connection(c) == sock[c] = "open" /\ healthy[c]

InPool(q, c) == \E i \in DOMAIN q : q[i] = c

\* The endpoint starts or stops answering an open session (a connection can die silently).
link_change(c) ==
    /\ sock[c] = "open"
    /\ healthy' = [healthy EXCEPT ![c] = ~healthy[c]]
    /\ UNCHANGED <<sock, kind, ctorVars, poolVars, threadVars>>

\* ------------------------------------------------------------------ locks
Unlock(owners, t) == [l \in LockIds |-> IF owners[l] = t THEN None ELSE owners[l]]

\* ------------------------------------------------- __new__ and __init__
\* __new__: under the class lock, create the instance once and clear its flag.
new(t) ==
    /\ pc[t] = "start"
    /\ instance' = 1
    /\ initialized' = IF instance = None THEN FALSE ELSE initialized
    /\ pc' = [pc EXCEPT ![t] = "init"]
    /\ UNCHANGED <<connVars, pool_of, poolVars, conn>>

\* __init__: `if self.__initialized: return`, read without any lock.
init_check(t) ==
    /\ pc[t] = "init"
    /\ IF initialized
       THEN /\ pc' = [pc EXCEPT ![t] = "idle"]
            /\ pool_of' = [pool_of EXCEPT ![t] = instance]
       ELSE /\ pc' = [pc EXCEPT ![t] = "init_body"]
            /\ UNCHANGED pool_of
    /\ UNCHANGED <<connVars, instance, initialized, poolVars, conn>>

\* __init__ after the check: set the flag, then a new lock object and a new empty list.
init_body(t) ==
    /\ pc[t] = "init_body"
    /\ initialized' = TRUE
    /\ lock' = lock + 1
    /\ pool' = <<>>
    /\ pc' = [pc EXCEPT ![t] = "idle"]
    /\ pool_of' = [pool_of EXCEPT ![t] = instance]
    /\ persistent_conn' = None
    /\ persistent_lock' = None
    /\ last_heartbeat' = 0
    /\ UNCHANGED <<connVars, instance, lock_owner, conn>>

\* ------------------------------------------------------- get_connection
\* with self._lock: return self._pool.pop() if self._pool else self._create_connection()
get_connection_enter_peek(t) ==
    /\ pc[t] = "idle"
    /\ lock # None
    /\ lock_owner[lock] = None
    /\ IF pool # <<>>
       THEN /\ conn' = [conn EXCEPT ![t] = pool[Len(pool)]]
            /\ pc' = [pc EXCEPT ![t] = "using"]
            /\ UNCHANGED <<lock_owner, pool>>
       ELSE /\ lock_owner' = [lock_owner EXCEPT ![lock] = t]
            /\ pc' = [pc EXCEPT ![t] = "get_connect"]
            /\ UNCHANGED <<conn, pool>>
    /\ UNCHANGED <<connVars, ctorVars, lock>>

get_connection_enter(t) ==
    /\ pc[t] = "idle"
    /\ lock # None
    /\ lock_owner[lock] = None
    /\ IF pool # <<>>
       THEN /\ conn' = [conn EXCEPT ![t] = pool[Len(pool)]]
            /\ pool' = SubSeq(pool, 1, Len(pool) - 1)
            /\ pc' = [pc EXCEPT ![t] = "using"]
            /\ UNCHANGED lock_owner
       ELSE /\ lock_owner' = [lock_owner EXCEPT ![lock] = t]
            /\ pc' = [pc EXCEPT ![t] = "get_connect"]
            /\ UNCHANGED <<conn, pool>>
    /\ UNCHANGED <<connVars, ctorVars, lock>>

\* _create_connection(persistent=False): one connect attempt ...
create_connection_ok(t) ==
    /\ pc[t] = "get_connect"
    /\ CanAllocate
    /\ sock' = [sock EXCEPT ![FreshConn] = "open"]
    /\ healthy' = [healthy EXCEPT ![FreshConn] = TRUE]
    /\ kind' = [kind EXCEPT ![FreshConn] = FALSE]
    /\ conn' = [conn EXCEPT ![t] = FreshConn]
    /\ lock_owner' = Unlock(lock_owner, t)
    /\ pc' = [pc EXCEPT ![t] = "using"]
    /\ UNCHANGED <<ctorVars, pool, lock>>

\* ... and None on any failure (the except branch closes what was opened).
create_connection_fail(t) ==
    /\ pc[t] = "get_connect"
    /\ conn' = [conn EXCEPT ![t] = None]
    /\ lock_owner' = Unlock(lock_owner, t)
    /\ pc' = [pc EXCEPT ![t] = "using"]
    /\ UNCHANGED <<connVars, ctorVars, pool, lock>>

\* --------------------------------------------------- release_connection
\* `if conn is None: return`; else take the lock and test len(self._pool) < self._size.
release_connection_enter_unbounded(t) ==
    /\ pc[t] = "using"
    /\ IF conn[t] = None
       THEN /\ pc' = [pc EXCEPT ![t] = "idle"]
            /\ UNCHANGED <<sock, lock_owner, conn>>
       ELSE /\ lock_owner[lock] = None
            /\ lock_owner' = [lock_owner EXCEPT ![lock] = t]
            /\ pc' = [pc EXCEPT ![t] = "rel_probe"]
            /\ UNCHANGED <<sock, conn>>
    /\ healthy' = Dead(healthy, sock')
    /\ UNCHANGED <<kind, ctorVars, pool, lock>>

release_connection_enter(t) ==
    /\ pc[t] = "using"
    /\ IF conn[t] = None
       THEN /\ pc' = [pc EXCEPT ![t] = "idle"]
            /\ UNCHANGED <<sock, lock_owner, conn>>
       ELSE /\ lock_owner[lock] = None
            /\ IF Len(pool) < CONNECTION_POOL_SIZE
               THEN /\ lock_owner' = [lock_owner EXCEPT ![lock] = t]
                    /\ pc' = [pc EXCEPT ![t] = "rel_probe"]
                    /\ UNCHANGED <<sock, conn>>
               ELSE /\ sock' = Close(sock, conn[t])
                    /\ pc' = [pc EXCEPT ![t] = "idle"]
                    /\ conn' = [conn EXCEPT ![t] = None]
                    /\ UNCHANGED lock_owner
    /\ healthy' = Dead(healthy, sock')
    /\ UNCHANGED <<kind, ctorVars, pool, lock>>

\* `and self._test_connection(conn)`: append on success, else conn.close(); lock released.
release_connection_probe_skipped(t) ==
    /\ pc[t] = "rel_probe"
    /\ pool' = Append(pool, conn[t])
    /\ lock_owner' = Unlock(lock_owner, t)
    /\ pc' = [pc EXCEPT ![t] = "idle"]
    /\ conn' = [conn EXCEPT ![t] = None]
    /\ UNCHANGED <<connVars, ctorVars, lock>>

release_connection_probe(t) ==
    /\ pc[t] = "rel_probe"
    /\ IF test_connection(conn[t])
       THEN /\ pool' = Append(pool, conn[t])
            /\ UNCHANGED sock
       ELSE /\ sock' = Close(sock, conn[t])
            /\ UNCHANGED pool
    /\ lock_owner' = Unlock(lock_owner, t)
    /\ pc' = [pc EXCEPT ![t] = "idle"]
    /\ conn' = [conn EXCEPT ![t] = None]
    /\ healthy' = Dead(healthy, sock')
    /\ UNCHANGED <<kind, ctorVars, lock>>

\* ------------------------------------------------------------ close_all
RECURSIVE CloseEach(_, _)
CloseEach(s, q) == IF q = <<>> THEN s ELSE CloseEach(Close(s, Head(q)), Tail(q))

\* client.pool.close_all(): under the lock, close every free connection and clear the list.
close_all(t) ==
    /\ pc[t] = "idle"
    /\ lock # None
    /\ lock_owner[lock] = None
    /\ sock' = CloseEach(sock, pool)
    /\ pool' = <<>>
    /\ healthy' = Dead(healthy, sock')
    /\ UNCHANGED <<kind, ctorVars, lock, lock_owner, threadVars>>

\* ------------------------------------------------ persistent connection
\* How a call ended: the connection or None it returned (get), whether it raised
\* ConnectionError (get), the boolean it returned (check), whether it ran the recovery (check).
Returned(o, c, r, k, v) == [op |-> o, conn |-> c, raised |-> r, ok |-> k, recovered |-> v]

InitPersistent ==
    /\ persistent_conn = None
    /\ persistent_lock = None
    /\ last_heartbeat = 0
    /\ now = 31  \* time.time() when the process starts: any value above HEARTBEAT_TIMEOUT behaves alike
    /\ retry_count = [t \in Threads |-> 0]
    /\ sleeps = <<>>
    /\ ret = Returned("none", None, FALSE, FALSE, FALSE)

\* The clock moves on.
tick(d) ==
    /\ now + d <= MaxTime
    /\ now' = now + d
    /\ UNCHANGED <<connVars, ctorVars, poolVars, threadVars, obsVars, otherVars, persistent_conn,
                   persistent_lock, last_heartbeat, retry_count, sleeps, ret>>

\* get_persistent_connection: take the lock; a connection that passes the probe is
\* returned with a fresh heartbeat, otherwise the retry loop starts.
get_persistent_connection_enter(t) ==
    /\ pc[t] = "idle"
    /\ persistent_lock = None
    /\ IF persistent_conn # None /\ test_connection(persistent_conn)
       THEN /\ last_heartbeat' = now
            /\ ret' = Returned("get", persistent_conn, FALSE, TRUE, FALSE)
            /\ UNCHANGED <<persistent_lock, retry_count, sleeps, pc>>
       ELSE /\ persistent_lock' = t
            /\ retry_count' = [retry_count EXCEPT ![t] = 0]
            /\ sleeps' = <<>>
            /\ pc' = [pc EXCEPT ![t] = "p_connect"]
            /\ UNCHANGED <<last_heartbeat, ret>>
    /\ UNCHANGED <<connVars, ctorVars, poolVars, conn, obsVars, otherVars, persistent_conn, now>>

\* _create_connection(persistent=True) connected and verified: installed and returned.
persistent_connect_ok(t) ==
    /\ pc[t] = "p_connect"
    /\ CanAllocate
    /\ sock' = [sock EXCEPT ![FreshConn] = "open"]
    /\ healthy' = [healthy EXCEPT ![FreshConn] = TRUE]
    /\ kind' = [kind EXCEPT ![FreshConn] = TRUE]
    /\ persistent_conn' = FreshConn
    /\ last_heartbeat' = now
    /\ ret' = Returned("get", FreshConn, FALSE, TRUE, FALSE)
    /\ persistent_lock' = None
    /\ retry_count' = [retry_count EXCEPT ![t] = 0]
    /\ pc' = [pc EXCEPT ![t] = "idle"]
    /\ UNCHANGED <<ctorVars, poolVars, conn, obsVars, otherVars, now, sleeps>>

\* _create_connection(persistent=True) returned None: the connect failed, or it
\* succeeded and the verification failed, in which case the new session was closed.
persistent_connect_fail(t) ==
    /\ pc[t] = "p_connect"
    /\ \/ UNCHANGED connVars
       \/ /\ CanAllocate
          /\ sock' = [sock EXCEPT ![FreshConn] = "closed"]
          /\ kind' = [kind EXCEPT ![FreshConn] = TRUE]
          /\ UNCHANGED healthy
    /\ persistent_conn' = None
    /\ retry_count' = [retry_count EXCEPT ![t] = retry_count[t] + 1]
    /\ pc' = [pc EXCEPT ![t] = "p_sleep"]
    /\ UNCHANGED <<ctorVars, poolVars, conn, obsVars, otherVars, persistent_lock, last_heartbeat,
                   now, sleeps, ret>>

persistent_sleep_linear(t) ==
    /\ pc[t] = "p_sleep"
    /\ sleeps' = Append(sleeps, 2 * retry_count[t])
    /\ IF retry_count[t] < MAX_RETRIES
       THEN /\ pc' = [pc EXCEPT ![t] = "p_connect"]
            /\ UNCHANGED <<persistent_lock, ret, retry_count>>
       ELSE /\ pc' = [pc EXCEPT ![t] = "idle"]
            /\ persistent_lock' = None
            /\ retry_count' = [retry_count EXCEPT ![t] = 0]
            /\ ret' = Returned("get", None, TRUE, FALSE, FALSE)
    /\ UNCHANGED <<connVars, ctorVars, poolVars, conn, obsVars, otherVars, persistent_conn,
                   last_heartbeat, now>>

\* time.sleep(2 ** retry_count) (the clock itself is moved by tick), then the loop test: another attempt, or ConnectionError.
persistent_sleep(t) ==
    /\ pc[t] = "p_sleep"
    /\ sleeps' = Append(sleeps, 2 ^ retry_count[t])
    /\ IF retry_count[t] < MAX_RETRIES
       THEN /\ pc' = [pc EXCEPT ![t] = "p_connect"]
            /\ UNCHANGED <<persistent_lock, ret, retry_count>>
       ELSE /\ pc' = [pc EXCEPT ![t] = "idle"]
            /\ persistent_lock' = None
            /\ retry_count' = [retry_count EXCEPT ![t] = 0]
            /\ ret' = Returned("get", None, TRUE, FALSE, FALSE)
    /\ UNCHANGED <<connVars, ctorVars, poolVars, conn, obsVars, otherVars, persistent_conn,
                   last_heartbeat, now>>

\* check_persistent_connection with no connection: False.
check_persistent_absent(t) ==
    /\ pc[t] = "idle"
    /\ persistent_lock = None
    /\ persistent_conn = None
    /\ ret' = Returned("check", None, FALSE, FALSE, FALSE)
    /\ UNCHANGED <<connVars, ctorVars, poolVars, threadVars, obsVars, otherVars, persistent_conn,
                   persistent_lock, last_heartbeat, now, retry_count, sleeps>>

\* check_persistent_connection within the heartbeat interval: no probe, True.
check_persistent_recent(t) ==
    /\ pc[t] = "idle"
    /\ persistent_lock = None
    /\ persistent_conn # None
    /\ ~(now - last_heartbeat > HEARTBEAT_TIMEOUT)
    /\ ret' = Returned("check", persistent_conn, FALSE, TRUE, FALSE)
    /\ UNCHANGED <<connVars, ctorVars, poolVars, threadVars, obsVars, otherVars, persistent_conn,
                   persistent_lock, last_heartbeat, now, retry_count, sleeps>>

\* check_persistent_connection after the interval, the probe passes: heartbeat refreshed.
check_persistent_alive(t) ==
    /\ pc[t] = "idle"
    /\ persistent_lock = None
    /\ persistent_conn # None
    /\ now - last_heartbeat > HEARTBEAT_TIMEOUT
    /\ test_connection(persistent_conn)
    /\ last_heartbeat' = now
    /\ ret' = Returned("check", persistent_conn, FALSE, TRUE, FALSE)
    /\ UNCHANGED <<connVars, ctorVars, poolVars, threadVars, obsVars, otherVars, persistent_conn,
                   persistent_lock, now, retry_count, sleeps>>

check_persistent_recover_leaky(t) ==
    /\ pc[t] = "idle"
    /\ persistent_lock = None
    /\ persistent_conn # None
    /\ now - last_heartbeat > HEARTBEAT_TIMEOUT
    /\ ~test_connection(persistent_conn)
    /\ \/ /\ CanAllocate
          /\ sock' = [sock EXCEPT ![FreshConn] = "open"]
          /\ healthy' = [healthy EXCEPT ![FreshConn] = TRUE]
          /\ kind' = [kind EXCEPT ![FreshConn] = TRUE]
          /\ persistent_conn' = FreshConn
          /\ ret' = Returned("check", FreshConn, FALSE, TRUE, TRUE)
       \/ /\ UNCHANGED connVars
          /\ persistent_conn' = None
          /\ ret' = Returned("check", None, FALSE, FALSE, TRUE)
    /\ last_heartbeat' = now
    /\ UNCHANGED <<ctorVars, poolVars, threadVars, obsVars, otherVars, persistent_lock, now,
                   retry_count, sleeps>>

\* check_persistent_connection after the interval, the probe fails: close the connection,
\* install what one _create_connection(persistent=True) returns, refresh the heartbeat.
check_persistent_recover(t) ==
    /\ pc[t] = "idle"
    /\ persistent_lock = None
    /\ persistent_conn # None
    /\ now - last_heartbeat > HEARTBEAT_TIMEOUT
    /\ ~test_connection(persistent_conn)
    /\ \/ /\ CanAllocate
          /\ sock' = [Close(sock, persistent_conn) EXCEPT ![FreshConn] = "open"]
          /\ healthy' = [Dead(healthy, sock') EXCEPT ![FreshConn] = TRUE]
          /\ kind' = [kind EXCEPT ![FreshConn] = TRUE]
          /\ persistent_conn' = FreshConn
          /\ ret' = Returned("check", FreshConn, FALSE, TRUE, TRUE)
       \/ /\ sock' = Close(sock, persistent_conn)
          /\ healthy' = Dead(healthy, sock')
          /\ UNCHANGED kind
          /\ persistent_conn' = None
          /\ ret' = Returned("check", None, FALSE, FALSE, TRUE)
    /\ last_heartbeat' = now
    /\ UNCHANGED <<ctorVars, poolVars, threadVars, obsVars, otherVars, persistent_lock, now,
                   retry_count, sleeps>>

\* close_persistent_connection that closes the session but keeps the reference.
close_persistent_connection_keep(t) ==
    /\ pc[t] = "idle"
    /\ persistent_lock = None
    /\ IF persistent_conn # None
       THEN /\ sock' = Close(sock, persistent_conn)
            /\ healthy' = Dead(healthy, sock')
       ELSE UNCHANGED <<sock, healthy>>
    /\ ret' = Returned("close", None, FALSE, TRUE, FALSE)
    /\ UNCHANGED <<kind, ctorVars, poolVars, threadVars, obsVars, otherVars, persistent_conn,
                   persistent_lock, last_heartbeat, now, retry_count, sleeps>>

\* close_persistent_connection: close and forget the connection, if there is one.
close_persistent_connection(t) ==
    /\ pc[t] = "idle"
    /\ persistent_lock = None
    /\ IF persistent_conn # None
       THEN /\ sock' = Close(sock, persistent_conn)
            /\ healthy' = Dead(healthy, sock')
            /\ persistent_conn' = None
       ELSE UNCHANGED <<sock, healthy, persistent_conn>>
    /\ ret' = Returned("close", None, FALSE, TRUE, FALSE)
    /\ UNCHANGED <<kind, ctorVars, poolVars, threadVars, obsVars, otherVars, persistent_lock,
                   last_heartbeat, now, retry_count, sleeps>>

\* check_persistent_connection, whichever way it goes.
check_persistent_connection(t) ==
    \/ check_persistent_absent(t)
    \/ check_persistent_recent(t)
    \/ check_persistent_alive(t)
    \/ check_persistent_recover(t)

\* ------------------------------------------------- AsyncModbusConnection
\* Coroutines run on one event loop: a task gives way only at an await that suspends
\* (a lock that is held, a connect, a sleep, a close), so the code between two such
\* awaits is one step.

\* client.connected: the session is established and the endpoint has not dropped it.
connected(s, h, c) == s[c] = "open" /\ h[c]

InitAsync ==
    /\ connections = <<>>
    /\ async_initialized = FALSE
    /\ async_lock = None
    /\ task_pc = [t \in Tasks |-> "idle"]
    /\ call = [t \in Tasks |-> "none"]
    /\ building = <<>>
    /\ attempt = [t \in Tasks |-> 0]
    /\ rebuilds = [t \in Tasks |-> 0]
    /\ close_index = 0
    /\ close_error = 0
    /\ async_ret = "none"

\* The endpoint drops or restores the session of a client the pool holds or is building.
connection_change(c) ==
    /\ InPool(connections, c) \/ InPool(building, c)
    /\ link_change(c)
    /\ UNCHANGED <<obsVars, otherVars, persVars>>

\* The scan of get_connection over connections q: the first slot holding a connected client.
FirstConnected(q, s, h) ==
    LET hits == {i \in DOMAIN q : q[i] # None /\ connected(s, h, q[i])}
    IN  IF hits = {} THEN None ELSE q[CHOOSE i \in hits : \A j \in hits : i <= j]

\* get_connection's loop body for attempt a (counted from 0): return the first connected
\* client; without one, sleep 1 s when another attempt is left, raise ConnectionError
\* after the last.
Scan(t, a, q, s, h) ==
    LET hit == FirstConnected(q, s, h)
    IN  IF hit = None /\ a < max_retries - 1
        THEN /\ task_pc' = [task_pc EXCEPT ![t] = "sleep"]
             /\ call' = [call EXCEPT ![t] = "get_connection"]
             /\ attempt' = [attempt EXCEPT ![t] = a]
             /\ UNCHANGED <<rebuilds, async_ret>>
        ELSE /\ task_pc' = [task_pc EXCEPT ![t] = "idle"]
             /\ call' = [call EXCEPT ![t] = "none"]
             /\ attempt' = [attempt EXCEPT ![t] = 0]
             /\ rebuilds' = [rebuilds EXCEPT ![t] = 0]
             /\ async_ret' = IF hit = None THEN "exhausted" ELSE "none"

\* initialize() returns to its caller: to the code that called it directly, or into
\* get_connection's scan, with no suspension in between.
ReturnFromInitialize(t, q, s, h) ==
    IF call[t] = "initialize"
    THEN /\ task_pc' = [task_pc EXCEPT ![t] = "idle"]
         /\ call' = [call EXCEPT ![t] = "none"]
         /\ async_ret' = "none"
         /\ UNCHANGED <<attempt, rebuilds>>
    ELSE Scan(t, attempt[t], q, s, h)

\* The list comprehension of initialize starts for task t, which holds the lock; a build
\* started from get_connection's line 77 is a rebuild.
StartBuild(t, c, a) ==
    /\ async_lock' = t
    /\ task_pc' = [task_pc EXCEPT ![t] = "init_build"]
    /\ building' = <<>>
    /\ rebuilds' = [rebuilds EXCEPT ![t] = IF c = "get_connection" /\ a > 0 THEN @ + 1 ELSE @]

\* initialize() on an uninitialized pool, called for c (attempt a next): take the lock
\* and start building, or wait for the lock.
AwaitLock(t, c, a) ==
    /\ call' = [call EXCEPT ![t] = c]
    /\ attempt' = [attempt EXCEPT ![t] = a]
    /\ IF async_lock = None
       THEN StartBuild(t, c, a)
       ELSE /\ task_pc' = [task_pc EXCEPT ![t] = "init_lock"]
            /\ UNCHANGED <<async_lock, building, rebuilds>>
    /\ UNCHANGED <<connVars, connections, async_initialized, close_index, close_error, async_ret>>

\* initialize() called directly: nothing to do once the pool is initialized.
initialize(t) ==
    /\ task_pc[t] = "idle"
    /\ IF async_initialized
       THEN /\ async_ret' = "none"
            /\ UNCHANGED <<connVars, connections, async_initialized, async_lock, task_pc, call,
                           building, attempt, rebuilds, close_index, close_error>>
       ELSE AwaitLock(t, "initialize", 0)
    /\ UNCHANGED <<syncVars, counter, wait, cycle, statVars, testVars>>

\* get_connection(): initialize(), then the first scan.
async_get_connection(t) ==
    /\ task_pc[t] = "idle"
    /\ IF async_initialized
       THEN /\ Scan(t, 0, connections, sock, healthy)
            /\ UNCHANGED <<connVars, connections, async_initialized, async_lock, building,
                           close_index, close_error>>
       ELSE AwaitLock(t, "get_connection", 0)
    /\ UNCHANGED <<syncVars, counter, wait, cycle, statVars, testVars>>

\* initialize after waiting for the lock without the second check of _initialized.
initialize_locked_unchecked(t) ==
    /\ task_pc[t] = "init_lock"
    /\ async_lock = None
    /\ StartBuild(t, call[t], attempt[t])
    /\ UNCHANGED <<call, attempt, async_ret>>
    /\ UNCHANGED <<connVars, connections, async_initialized, close_index, close_error>>
    /\ UNCHANGED <<syncVars, counter, wait, cycle, statVars, testVars>>

\* The lock is free for a task that waited for it in initialize: the second check of
\* _initialized decides between returning and building.
initialize_locked(t) ==
    /\ task_pc[t] = "init_lock"
    /\ async_lock = None
    /\ IF async_initialized
       THEN /\ ReturnFromInitialize(t, connections, sock, healthy)
            /\ UNCHANGED <<async_lock, building>>
       ELSE /\ StartBuild(t, call[t], attempt[t])
            /\ UNCHANGED <<call, attempt, async_ret>>
    /\ UNCHANGED <<connVars, connections, async_initialized, close_index, close_error>>
    /\ UNCHANGED <<syncVars, counter, wait, cycle, statVars, testVars>>

\* _create_connection succeeds inside the comprehension: one more connected client; with
\* the CONNECTION_POOL_SIZE-th the list is assigned, the pool is marked initialized, the
\* lock is released and initialize returns.
async_create_connection_ok(t) ==
    /\ task_pc[t] = "init_build"
    /\ CanAllocate
    /\ sock' = [sock EXCEPT ![FreshConn] = "open"]
    /\ healthy' = [healthy EXCEPT ![FreshConn] = TRUE]
    /\ IF Len(building) + 1 < CONNECTION_POOL_SIZE
       THEN /\ building' = Append(building, FreshConn)
            /\ UNCHANGED <<connections, async_initialized, async_lock, task_pc, call, attempt,
                           rebuilds, async_ret>>
       ELSE /\ connections' = Append(building, FreshConn)
            /\ async_initialized' = TRUE
            /\ async_lock' = None
            /\ building' = <<>>
            /\ ReturnFromInitialize(t, connections', sock', healthy')
    /\ UNCHANGED <<kind, close_index, close_error>>
    /\ UNCHANGED <<syncVars, counter, wait, cycle, statVars, testVars>>

\* _create_connection raises (connect failed or the client is not connected): the error
\* leaves initialize and its caller; the lock is released, the pool stays as it was and
\* the clients the comprehension had made so far are dropped as they are.
async_create_connection_fail(t) ==
    /\ task_pc[t] = "init_build"
    /\ async_lock' = None
    /\ building' = <<>>
    /\ task_pc' = [task_pc EXCEPT ![t] = "idle"]
    /\ async_ret' = "connect"
    /\ call' = [call EXCEPT ![t] = "none"]
    /\ attempt' = [attempt EXCEPT ![t] = 0]
    /\ rebuilds' = [rebuilds EXCEPT ![t] = 0]
    /\ UNCHANGED <<connVars, connections, async_initialized, close_index, close_error>>
    /\ UNCHANGED <<syncVars, counter, wait, cycle, statVars, testVars>>

\* asyncio.sleep(1) is over: initialize() again, then the next scan.
get_connection_retry(t) ==
    /\ task_pc[t] = "sleep"
    /\ IF async_initialized
       THEN /\ Scan(t, attempt[t] + 1, connections, sock, healthy)
            /\ UNCHANGED <<connVars, connections, async_initialized, async_lock, building,
                           close_index, close_error>>
       ELSE AwaitLock(t, "get_connection", attempt[t] + 1)
    /\ UNCHANGED <<syncVars, counter, wait, cycle, statVars, testVars>>

\* close_all's loop from slot i on, after the lock is taken: past the last slot the list
\* is emptied, the pool marked uninitialized, the lock released and the call returns.
CloseFrom(t, i, q) ==
    IF i <= Len(q)
    THEN /\ async_lock' = t
         /\ task_pc' = [task_pc EXCEPT ![t] = "closing"]
         /\ connections' = q
         /\ close_index' = i
         /\ UNCHANGED <<async_initialized, async_ret>>
    ELSE /\ async_lock' = None
         /\ task_pc' = [task_pc EXCEPT ![t] = "idle"]
         /\ connections' = <<>>
         /\ close_index' = 0
         /\ async_initialized' = FALSE
         /\ async_ret' = "none"

\* close_all(): take the lock or wait for it.
async_close_all(t) ==
    /\ task_pc[t] = "idle"
    /\ IF async_lock = None
       THEN CloseFrom(t, 1, connections)
       ELSE /\ task_pc' = [task_pc EXCEPT ![t] = "close_lock"]
            /\ UNCHANGED <<connections, async_initialized, async_lock, close_index, async_ret>>
    /\ close_error' = 0
    /\ UNCHANGED <<connVars, call, building, attempt, rebuilds>>
    /\ UNCHANGED <<syncVars, counter, wait, cycle, statVars, testVars>>

\* The lock is free for a task that waited for it in close_all.
close_all_locked(t) ==
    /\ task_pc[t] = "close_lock"
    /\ async_lock = None
    /\ CloseFrom(t, 1, connections)
    /\ close_error' = 0
    /\ UNCHANGED <<connVars, call, building, attempt, rebuilds>>
    /\ UNCHANGED <<syncVars, counter, wait, cycle, statVars, testVars>>

\* One slot of close_all's loop with the error of close() left to end the call: the
\* lock is released and the remaining slots stay as they are.
close_all_slot_unguarded(t) ==
    /\ task_pc[t] = "closing"
    /\ LET c == connections[close_index]
           q == [connections EXCEPT ![close_index] = None]
       IN  \/ /\ c = None \/ ~connected(sock, healthy, c)
              /\ CloseFrom(t, close_index + 1, q)
              /\ close_error' = IF close_index < Len(q) THEN close_error ELSE 0
              /\ UNCHANGED connVars
           \/ /\ c # None /\ connected(sock, healthy, c)
              /\ sock' = Close(sock, c)
              /\ healthy' = Dead(healthy, sock')
              /\ \/ /\ CloseFrom(t, close_index + 1, q)
                    /\ close_error' = IF close_index < Len(q) THEN close_error ELSE 0
                 \/ /\ close_error' = 0
                    /\ async_lock' = None
                    /\ task_pc' = [task_pc EXCEPT ![t] = "idle"]
                    /\ connections' = q
                    /\ close_index' = 0
                    /\ async_ret' = "close"
                    /\ UNCHANGED async_initialized
              /\ UNCHANGED kind
    /\ UNCHANGED <<call, building, attempt, rebuilds>>
    /\ UNCHANGED <<syncVars, counter, wait, cycle, statVars, testVars>>

\* One slot of close_all's loop: a slot that is None or not connected is skipped, a
\* connected client is closed; close() may raise, before or after the session went
\* down, and the error is logged; the slot is set to None in every case.
close_all_slot(t) ==
    /\ task_pc[t] = "closing"
    /\ LET c == connections[close_index]
           last == close_index = Len(connections)
       IN  \/ /\ c = None \/ ~connected(sock, healthy, c)
              /\ close_error' = IF last THEN 0 ELSE close_error
              /\ UNCHANGED connVars
           \/ /\ c # None /\ connected(sock, healthy, c)
              /\ \/ /\ sock' = Close(sock, c)
                    /\ healthy' = Dead(healthy, sock')
                    /\ close_error' \in IF last THEN {0} ELSE {close_error, close_index}
                 \/ /\ close_error' = IF last THEN 0 ELSE close_index
                    /\ UNCHANGED <<sock, healthy>>
              /\ UNCHANGED kind
    /\ CloseFrom(t, close_index + 1, [connections EXCEPT ![close_index] = None])
    /\ UNCHANGED <<call, building, attempt, rebuilds>>
    /\ UNCHANGED <<syncVars, counter, wait, cycle, statVars, testVars>>

\* ------------------------------------------------------- cycle scheduler
\* Time here is the performance counter, in ticks of 1/frequency seconds; it moves by
\* counter_tick only. A sleep inside a polling loop lasts as long as it lasts: the next
\* poll happens at any later moment.

\* _busy_wait_1ms's target offset: self.frequency.value // 1000.
OneMs == frequency \div 1000

InitSched ==
    /\ counter = 0
    /\ wait = [fn |-> "none", start |-> 0, delay |-> 0, timeout |-> 0, state |-> "idle"]
    /\ cycle = [variant |-> "none", phase |-> "idle", start |-> 0]

\* The clock advances.
counter_tick ==
    /\ counter < MaxCounter
    /\ counter' = counter + 1
    /\ UNCHANGED <<wait, cycle, connVars, syncVars, asyncVars, statVars, testVars>>

\* A busy wait begins: function fn reads the counter and spins for d ticks, guarded by a
\* timeout of s milliseconds where it has one.
StartWait(fn, d, s) ==
    /\ counter + d <= MaxCounter
    /\ wait' = [fn |-> fn, start |-> counter, delay |-> d, timeout |-> s, state |-> "spinning"]

\* The cycle that was pacing goes on to its next iteration when its wait has ended.
Paced(w) ==
    IF cycle.phase = "pace" /\ w.state # "spinning" THEN [cycle EXCEPT !.phase = "idle"] ELSE cycle

\* _busy_wait_1ms(timeout) called on its own.
busy_wait_1ms(s) ==
    /\ cycle.phase = "idle"
    /\ wait.state # "spinning"
    /\ StartWait("busy_wait_1ms", OneMs, s)
    /\ UNCHANGED <<counter, cycle, connVars, syncVars, asyncVars, statVars, testVars>>

\* One pass of _busy_wait_1ms's loop that never finds the target reached.
busy_wait_1ms_poll_blind ==
    /\ wait.fn = "busy_wait_1ms"
    /\ wait.state = "spinning"
    /\ wait' = IF (counter - wait.start) * 1000 > wait.timeout * frequency
               THEN [wait EXCEPT !.state = "timeout"]
               ELSE wait
    /\ cycle' = Paced(wait')
    /\ UNCHANGED <<counter, connVars, syncVars, asyncVars, statVars, testVars>>

\* One pass of _busy_wait_1ms's loop that looks at the timeout before the target.
busy_wait_1ms_poll_timeout_first ==
    /\ wait.fn = "busy_wait_1ms"
    /\ wait.state = "spinning"
    /\ wait' = IF (counter - wait.start) * 1000 > wait.timeout * frequency
               THEN [wait EXCEPT !.state = "timeout"]
               ELSE IF wait.start + wait.delay - counter <= 0
                    THEN [wait EXCEPT !.state = "returned"]
                    ELSE wait
    /\ cycle' = Paced(wait')
    /\ UNCHANGED <<counter, connVars, syncVars, asyncVars, statVars, testVars>>

\* One pass of _busy_wait_1ms's loop: return the waited time once the target is reached,
\* raise TimeoutError when more than the timeout has gone by, else sleep and look again.
busy_wait_1ms_poll ==
    /\ wait.fn = "busy_wait_1ms"
    /\ wait.state = "spinning"
    /\ wait' = IF wait.start + wait.delay - counter <= 0
               THEN [wait EXCEPT !.state = "returned"]
               ELSE IF (counter - wait.start) * 1000 > wait.timeout * frequency
                    THEN [wait EXCEPT !.state = "timeout"]
                    ELSE wait
    /\ cycle' = Paced(wait')
    /\ UNCHANGED <<counter, connVars, syncVars, asyncVars, statVars, testVars>>

\* _busy_wait(target_delay) of either client, called on its own.
busy_wait(d) ==
    /\ cycle.phase = "idle"
    /\ wait.state # "spinning"
    /\ StartWait("busy_wait", d, 0)
    /\ UNCHANGED <<counter, cycle, connVars, syncVars, asyncVars, statVars, testVars>>

\* One pass of _busy_wait's loop: leave once target_delay has gone by since the start.
busy_wait_poll ==
    /\ wait.fn = "busy_wait"
    /\ wait.state = "spinning"
    /\ wait' = IF counter - wait.start >= wait.delay
               THEN [wait EXCEPT !.state = "returned"]
               ELSE wait
    /\ cycle' = Paced(wait')
    /\ UNCHANGED <<counter, connVars, syncVars, asyncVars, statVars, testVars>>

\* client.py run_test, top of the loop: time.sleep(0.001).
run_test_sleep ==
    /\ cycle.phase = "idle"
    /\ wait.state # "spinning"
    /\ counter + OneMs <= MaxCounter
    /\ cycle' = [variant |-> "sync", phase |-> "base_sleep", start |-> counter + OneMs]
    /\ UNCHANGED <<counter, wait, connVars, syncVars, asyncVars, statVars, testVars>>

\* The base sleep is over: cycle_start = time.perf_counter(), and the operation begins.
run_test_begin ==
    /\ cycle.phase = "base_sleep"
    /\ counter >= cycle.start
    /\ cycle' = [cycle EXCEPT !.phase = "work", !.start = counter]
    /\ UNCHANGED <<counter, wait, connVars, syncVars, asyncVars, statVars, testVars>>

\* The operation of the cycle is done and its connection released: the cycle control
\* calls _busy_wait_1ms() with the default timeout.
run_test_pace ==
    /\ cycle.variant = "sync"
    /\ cycle.phase = "work"
    /\ StartWait("busy_wait_1ms", OneMs, 1000 * DEFAULT_TIMEOUT)
    /\ cycle' = [cycle EXCEPT !.phase = "pace"]
    /\ UNCHANGED <<counter, connVars, syncVars, asyncVars, statVars, testVars>>

\* async_client.py run_test: cycle_start = self._clock(), and the operations begin.
async_run_test_begin ==
    /\ cycle.phase = "idle"
    /\ wait.state # "spinning"
    /\ cycle' = [variant |-> "async", phase |-> "work", start |-> counter]
    /\ UNCHANGED <<counter, wait, connVars, syncVars, asyncVars, statVars, testVars>>

\* The operations of the cycle are done: target_wait = max(0, BUSY_WAIT_PRECISION -
\* elapsed); above 0.001 s half of it is slept and half of it spun.
async_run_test_pace ==
    /\ cycle.variant = "async"
    /\ cycle.phase = "work"
    /\ LET elapsed == counter - cycle.start
           target_wait == IF BUSY_WAIT_PRECISION - elapsed > 0 THEN BUSY_WAIT_PRECISION - elapsed ELSE 0
       IN  IF target_wait > OneMs
           THEN /\ StartWait("busy_wait", target_wait \div 2, 0)
                /\ cycle' = [cycle EXCEPT !.phase = "pace"]
           ELSE /\ cycle' = [cycle EXCEPT !.phase = "idle"]
                /\ UNCHANGED wait
    /\ UNCHANGED <<counter, connVars, syncVars, asyncVars, statVars, testVars>>


\* ------------------------------------------------------ float arithmetic
\* Python floats are binary floating point with round to nearest, ties to even. The
\* model keeps the rounding and shortens the significand to FloatBits bits; a float is
\* the pair of an integer significand m and an exponent e, of value m * 2^e.
Float(m, e) == [m |-> m, e |-> e]

Zero == Float(0, 0)

Abs(n) == IF n < 0 THEN -n ELSE n

Sign(n) == IF n < 0 THEN -1 ELSE 1

\* int.bit_length
BitLength(n) == CHOOSE b \in 0..30 : n < 2 ^ b /\ (b = 0 \/ 2 ^ (b - 1) <= n)

\* The float nearest to sign * (num / den) * 2^e.
Round(sign, num, den, e) ==
    IF num = 0 THEN Zero
    ELSE LET k == IF den = 1 THEN 0 ELSE 2 * FloatBits + 1
             q == (num * 2 ^ k) \div den
             sticky == (num * 2 ^ k) % den # 0
             drop == BitLength(q) - FloatBits
         IN  IF drop <= 0
             THEN Float(sign * q * 2 ^ (-drop), e - k + drop)
             ELSE LET m0 == q \div 2 ^ drop
                      low == q % 2 ^ drop
                      half == 2 ^ (drop - 1)
                      up == low > half \/ (low = half /\ (sticky \/ m0 % 2 = 1))
                      m == IF up THEN m0 + 1 ELSE m0
                  IN  IF m = 2 ^ FloatBits
                      THEN Float(sign * 2 ^ (FloatBits - 1), e - k + drop + 1)
                      ELSE Float(sign * m, e - k + drop)

\* float(n) of an int
FromInt(n) == Round(Sign(n), Abs(n), 1, 0)

\* a + b
Fadd(a, b) ==
    IF a.m = 0 THEN b
    ELSE IF b.m = 0 THEN a
    ELSE LET e == (IF a.e < b.e THEN a.e ELSE b.e)
             n == a.m * 2 ^ (a.e - e) + b.m * 2 ^ (b.e - e)
         IN  Round(Sign(n), Abs(n), 1, e)

\* a / b, b not zero
Fdiv(a, b) == Round(Sign(a.m) * Sign(b.m), Abs(a.m), Abs(b.m), a.e - b.e)

\* a < b
Fless(a, b) ==
    LET e == (IF a.e < b.e THEN a.e ELSE b.e)
    IN  a.m * 2 ^ (a.e - e) < b.m * 2 ^ (b.e - e)

\* a ** 0.5, a not negative: the float nearest to the square root.
Fsqrt(a) ==
    IF a.m = 0 THEN Zero
    ELSE LET s == IF (a.e - (FloatBits - 1)) % 2 = 0 THEN FloatBits - 1 ELSE FloatBits
             n == a.m * 2 ^ s
             r == CHOOSE x \in 0..(2 ^ FloatBits) : x * x <= n /\ (x + 1) * (x + 1) > n
             m == IF n > r * r + r THEN r + 1 ELSE r
         IN  IF m = 2 ^ FloatBits
             THEN Float(2 ^ (FloatBits - 1), (a.e - s) \div 2 + 1)
             ELSE Float(m, (a.e - s) \div 2)

\* sum(xs) of floats, from the left
RECURSIVE Fsum(_)
Fsum(xs) == IF xs = <<>> THEN Zero ELSE Fadd(Fsum(SubSeq(xs, 1, Len(xs) - 1)), xs[Len(xs)])

\* max(xs), min(xs) of a non-empty list of floats
RECURSIVE Fmax(_)
Fmax(xs) ==
    IF Len(xs) = 1 THEN xs[1]
    ELSE LET r == Fmax(SubSeq(xs, 1, Len(xs) - 1))
         IN  IF Fless(r, xs[Len(xs)]) THEN xs[Len(xs)] ELSE r

RECURSIVE Fmin(_)
Fmin(xs) ==
    IF Len(xs) = 1 THEN xs[1]
    ELSE LET r == Fmin(SubSeq(xs, 1, Len(xs) - 1))
         IN  IF Fless(xs[Len(xs)], r) THEN xs[Len(xs)] ELSE r


\* ------------------------------------------------------------ statistics
\* The stats dictionary of a client: `client` says whose it is (client.py "sync",
\* async_client.py "async"). Latencies are whole milliseconds, cycle durations are
\* floats in ms. The per-kind latency lists of the async client are filled together
\* with the combined list and are left out.

\* The quotient a / b, kept as the pair.
Ratio(a, b) == [num |-> a, den |-> b]

\* The latencies 1..100 ms of a run of 100 successful operations, in the order met.
Recorded100 == [i \in 1..100 |-> ((i * 37) % 100) + 1]

LatencyValues == 1..3

\* 1.75 ms and 1.25 ms
CycleValues == {Round(1, 7, 4, 0), Round(1, 5, 4, 0)}

NoReport == [made |-> FALSE, raised |-> FALSE, success_rate |-> Ratio(0, 1), avg_cycle |-> Zero,
             max_cycle |-> Zero, min_cycle |-> Zero, jitter |-> Zero, avg_latency |-> Ratio(0, 1),
             max_latency |-> 0]

\* No client, nothing counted.
InitStats ==
    /\ client = "none"
    /\ total_requests = 0
    /\ success_requests = 0
    /\ failed_requests = 0
    /\ latencies = <<>>
    /\ cycles = <<>>
    /\ jitter = Zero
    /\ percentiles = <<0, 0, 0>>
    /\ report = NoReport

Running ==
    /\ client # "none"
    /\ ~report.made
    /\ total_requests < MaxSamples

\* _random_operation, the request answered: the latency is appended, the success counted
\* and, in the finally clause, the request.
random_operation_ok(ms) ==
    /\ Running
    /\ latencies' = Append(latencies, ms)
    /\ success_requests' = success_requests + 1
    /\ total_requests' = total_requests + 1
    /\ UNCHANGED <<client, failed_requests, cycles, jitter, percentiles, report, connVars,
                   syncVars, asyncVars, counter, wait, cycle, testVars>>

\* _random_operation, ModbusException: the failure and the request are counted.
random_operation_fail ==
    /\ Running
    /\ failed_requests' = failed_requests + 1
    /\ total_requests' = total_requests + 1
    /\ UNCHANGED <<client, success_requests, latencies, cycles, jitter, percentiles, report,
                   connVars, syncVars, asyncVars, counter, wait, cycle, testVars>>

\* _random_operation, any other exception: it leaves the method, the request is counted.
random_operation_raise ==
    /\ Running
    /\ total_requests' = total_requests + 1
    /\ UNCHANGED <<client, success_requests, failed_requests, latencies, cycles, jitter,
                   percentiles, report, connVars, syncVars, asyncVars, counter, wait, cycle,
                   testVars>>

\* client.py run_test: the duration _busy_wait_1ms returned is appended.
record_cycle(x) ==
    /\ client = "sync"
    /\ ~report.made
    /\ Len(cycles) < MaxSamples
    /\ cycles' = Append(cycles, x)
    /\ UNCHANGED <<client, total_requests, success_requests, failed_requests, latencies, jitter,
                   percentiles, report, connVars, syncVars, asyncVars, counter, wait, cycle,
                   testVars>>

\* sum((x - mean) ** 2 for x in recent)
RECURSIVE SquaredDeviations(_, _)
SquaredDeviations(xs, mean) ==
    IF xs = <<>> THEN Zero
    ELSE LET d == Fadd(xs[Len(xs)], Float(-mean.m, mean.e))
         IN  Fadd(SquaredDeviations(SubSeq(xs, 1, Len(xs) - 1), mean), Round(Sign(d.m) * Sign(d.m), Abs(d.m) * Abs(d.m), 1, d.e + d.e))

\* The jitter _update_cycle_stats leaves for cycles c, old being the value before.
Jitter(c, old) ==
    LET recent == IF Len(c) >= JITTER_WINDOW
                  THEN SubSeq(c, Len(c) - JITTER_WINDOW + 1, Len(c)) ELSE c
    IN  IF Len(recent) > 1
        THEN LET mean == Fdiv(Fsum(recent), FromInt(Len(recent)))
                 variance == Fdiv(SquaredDeviations(recent, mean), FromInt(Len(recent) - 1))
             IN  Fsqrt(variance)
        ELSE old

\* async_client.py _update_cycle_stats(cycle_time), x being cycle_time * 1000.
update_cycle_stats(x) ==
    /\ client = "async"
    /\ ~report.made
    /\ Len(cycles) < MaxSamples
    /\ cycles' = Append(cycles, x)
    /\ jitter' = Jitter(cycles', jitter)
    /\ UNCHANGED <<client, total_requests, success_requests, failed_requests, latencies,
                   percentiles, report, connVars, syncVars, asyncVars, counter, wait, cycle,
                   testVars>>

\* _calculate_percentiles with the nearest-rank index ceil(n * k) - 1.
calculate_percentiles_nearest_rank(data) ==
    IF data = <<>> THEN <<0, 0, 0>>
    ELSE LET sorted_data == SortSeq(data, LAMBDA a, b : a < b)
             n == Len(sorted_data)
         IN  <<sorted_data[(n * 50 + 99) \div 100],
               sorted_data[(n * 95 + 99) \div 100],
               sorted_data[(n * 99 + 99) \div 100]>>

\* _calculate_percentiles: sorted_data[int(n * 0.50)], [int(n * 0.95)], [int(n * 0.99)],
\* Python lists counting from 0. int(n * k) is the floor of the exact product for every
\* n up to 200000 at least.
calculate_percentiles(data) ==
    IF data = <<>> THEN <<0, 0, 0>>
    ELSE LET sorted_data == SortSeq(data, LAMBDA a, b : a < b)
             n == Len(sorted_data)
         IN  <<sorted_data[(n * 50) \div 100 + 1],
               sorted_data[(n * 95) \div 100 + 1],
               sorted_data[(n * 99) \div 100 + 1]>>

RECURSIVE Sum(_)
Sum(xs) == IF xs = <<>> THEN 0 ELSE Sum(SubSeq(xs, 1, Len(xs) - 1)) + xs[Len(xs)]

MaxOf(xs) == CHOOSE x \in {xs[i] : i \in DOMAIN xs} : \A i \in DOMAIN xs : xs[i] <= x

\* client.py _generate_report: every quotient but the QPS is guarded.
generate_report ==
    /\ client = "sync"
    /\ ~report.made
    /\ report' = [made |-> TRUE,
                  raised |-> FALSE,
                  success_rate |-> IF total_requests > 0
                                   THEN Ratio(success_requests * 100, total_requests)
                                   ELSE Ratio(0, 1),
                  avg_cycle |-> IF cycles # <<>> THEN Fdiv(Fsum(cycles), FromInt(Len(cycles))) ELSE Zero,
                  max_cycle |-> IF cycles # <<>> THEN Fmax(cycles) ELSE Zero,
                  min_cycle |-> IF cycles # <<>> THEN Fmin(cycles) ELSE Zero,
                  jitter |-> IF cycles # <<>> THEN Fadd(Fmax(cycles), Float(-Fmin(cycles).m, Fmin(cycles).e)) ELSE Zero,
                  avg_latency |-> IF latencies # <<>> THEN Ratio(Sum(latencies), Len(latencies))
                                  ELSE Ratio(0, 1),
                  max_latency |-> IF latencies # <<>> THEN MaxOf(latencies) ELSE 0]
    /\ UNCHANGED <<client, total_requests, success_requests, failed_requests, latencies, cycles,
                   jitter, percentiles, connVars, syncVars, asyncVars, counter, wait, cycle,
                   testVars>>

\* async_client.py _generate_report: _analyze_latencies, then the report lines; the
\* success rate divides by the request count and the average latency by the number of
\* samples, and a ZeroDivisionError leaves the method.
async_generate_report ==
    /\ client = "async"
    /\ ~report.made
    /\ percentiles' = IF latencies = <<>> THEN percentiles ELSE calculate_percentiles(latencies)
    /\ report' = IF total_requests = 0 \/ Len(latencies) = 0
                 THEN [NoReport EXCEPT !.made = TRUE, !.raised = TRUE]
                 ELSE [made |-> TRUE,
                       raised |-> FALSE,
                       success_rate |-> Ratio(success_requests * 100, total_requests),
                       avg_cycle |-> IF cycles # <<>> THEN Fdiv(Fsum(cycles), FromInt(Len(cycles))) ELSE Zero,
                       max_cycle |-> IF cycles # <<>> THEN Fmax(cycles) ELSE Zero,
                       min_cycle |-> IF cycles # <<>> THEN Fmin(cycles) ELSE Float(1, 1024),
                       jitter |-> jitter,
                       avg_latency |-> Ratio(Sum(latencies), Len(latencies)),
                       max_latency |-> MaxOf(latencies)]
    /\ UNCHANGED <<client, total_requests, success_requests, failed_requests, latencies, cycles,
                   jitter, connVars, syncVars, asyncVars, counter, wait, cycle, testVars>>

\* ------------------------------------------------- test_multiple_masters
\* The coordinator (the test function) starts one thread per client and joins them; each
\* thread runs master_worker. Probabilities and draws of random.random() are in
\* thousandths.

\* settings.MASTER_CONFIGS[...]["disconnect_prob"]; the test has the four masters only.
ConfiguredProb == [t \in Threads |-> IF t = 1 THEN 10 ELSE IF t = 2 THEN 5 ELSE 0]

Terminated(t) == worker[t] \in {"done", "error"}

\* Nothing of the test has run; probs are the configurations of disconnect_prob, in
\* thousandths.
InitMasters(probs) ==
    /\ coordinator = [phase |-> "start", i |-> 1]
    /\ worker = [t \in Threads |-> "unstarted"]
    /\ disconnect_prob \in probs

\* t.start() of the first loop: the thread runs from now on; after the last one the
\* second loop begins.
coordinator_start ==
    /\ coordinator.phase = "start"
    /\ worker' = [worker EXCEPT ![coordinator.i] = "loop"]
    /\ coordinator' = IF coordinator.i < NumThreads
                      THEN [coordinator EXCEPT !.i = @ + 1]
                      ELSE [phase |-> "join", i |-> 1]
    /\ UNCHANGED <<disconnect_prob, connVars, syncVars, asyncVars, counter, wait, cycle, statVars,
                   run_pc, new_conn, ops_done, warmup_cycles, completed>>

\* t.join() that returns although the thread still runs.
coordinator_join_nowait ==
    /\ coordinator.phase = "join"
    /\ coordinator' = IF coordinator.i < NumThreads
                      THEN [coordinator EXCEPT !.i = @ + 1]
                      ELSE [phase |-> "returned", i |-> 1]
    /\ UNCHANGED <<worker, disconnect_prob, connVars, syncVars, asyncVars, counter, wait, cycle,
                   statVars, run_pc, new_conn, ops_done, warmup_cycles, completed>>

\* t.join() of the second loop returns when the thread has ended, however it ended; after
\* the last one the test function returns.
coordinator_join ==
    /\ coordinator.phase = "join"
    /\ Terminated(coordinator.i)
    /\ coordinator' = IF coordinator.i < NumThreads
                      THEN [coordinator EXCEPT !.i = @ + 1]
                      ELSE [phase |-> "returned", i |-> 1]
    /\ UNCHANGED <<worker, disconnect_prob, connVars, syncVars, asyncVars, counter, wait, cycle,
                   statVars, run_pc, new_conn, ops_done, warmup_cycles, completed>>

\* while time.time() < end_time: the duration is over and master_worker returns.
master_worker_expire(t) ==
    /\ worker[t] = "loop"
    /\ worker' = [worker EXCEPT ![t] = "done"]
    /\ UNCHANGED <<coordinator, disconnect_prob, connVars, syncVars, asyncVars, counter, wait,
                   cycle, statVars, run_pc, new_conn, ops_done, warmup_cycles, completed>>

\* An iteration whose draw falls below disconnect_prob: client.pool.close_all(), but the
\* pool class of connection.py, which the client uses, defines no close_all: the
\* AttributeError ends the thread before anything is closed and before any delay.
master_worker_disconnect(t, draw) ==
    /\ worker[t] = "loop"
    /\ disconnect_prob[t] > 0 /\ draw < disconnect_prob[t]
    /\ worker' = [worker EXCEPT ![t] = "error"]
    /\ UNCHANGED <<coordinator, disconnect_prob, connVars, syncVars, asyncVars, counter, wait,
                   cycle, statVars, run_pc, new_conn, ops_done, warmup_cycles, completed>>

\* An iteration without disconnect: client.run_test(duration=1, use_busy_wait=...), but
\* run_test(self, duration) takes no use_busy_wait: the TypeError ends the thread.
master_worker_run_test(t, draw) ==
    /\ worker[t] = "loop"
    /\ ~(disconnect_prob[t] > 0 /\ draw < disconnect_prob[t])
    /\ worker' = [worker EXCEPT ![t] = "error"]
    /\ UNCHANGED <<coordinator, disconnect_prob, connVars, syncVars, asyncVars, counter, wait,
                   cycle, statVars, run_pc, new_conn, ops_done, warmup_cycles, completed>>

\* ------------------------------------------------------ run_test loops
\* The run_test of the threaded client (client.py) on the pool of connection.py, and the
\* run_test of the asyncio client (async_client.py). run_pc is the place of the loop
\* between two calls into the pool; the pool's own steps are its actions above.

InitRunLoop ==
    /\ run_pc = "idle"
    /\ new_conn = None
    /\ ops_done = 0
    /\ warmup_cycles = WARMUP_CYCLES
    /\ completed = 0

\* The request ended normally: latency, success and, in the finally clause, the request.
CountSuccess(ms) ==
    /\ latencies' = Append(latencies, ms)
    /\ success_requests' = success_requests + 1
    /\ total_requests' = total_requests + 1
    /\ UNCHANGED failed_requests

\* except ModbusException: the failure and the request.
CountFailure ==
    /\ failed_requests' = failed_requests + 1
    /\ total_requests' = total_requests + 1
    /\ UNCHANGED <<success_requests, latencies>>

\* Any other exception: the finally clause counts the request.
CountRequest ==
    /\ total_requests' = total_requests + 1
    /\ UNCHANGED <<success_requests, failed_requests, latencies>>

\* run_test begins: the log lines, then the trial get_connection.
run_test_start(t) ==
    /\ client = "sync"
    /\ run_pc = "idle"
    /\ pc[t] = "idle"
    /\ run_pc' = "trial_get"
    /\ UNCHANGED <<new_conn, ops_done, warmup_cycles, completed, connVars, poolVars, threadVars,
                   statVars, outsideRun>>

\* test_conn.is_socket_open() on what get_connection returned: on None the AttributeError
\* leaves run_test, which has not entered its try yet.
run_test_trial(t) ==
    /\ run_pc = "trial_get"
    /\ pc[t] = "using"
    /\ IF conn[t] = None
       THEN /\ run_pc' = "raised"
            /\ pc' = [pc EXCEPT ![t] = "idle"]
       ELSE /\ run_pc' = "trial_release"
            /\ UNCHANGED pc
    /\ UNCHANGED <<new_conn, ops_done, warmup_cycles, completed, connVars, poolVars, conn,
                   statVars, outsideRun>>

\* release_connection has returned: the loop goes on where the release was called from.
run_test_released(t) ==
    /\ run_pc \in {"trial_release", "release_ok", "release_continue", "release_break", "release_raise"}
    /\ pc[t] = "idle"
    /\ run_pc' = CASE run_pc = "trial_release" -> "loop"
                   [] run_pc = "release_ok" -> "pace"
                   [] run_pc = "release_continue" -> "loop"
                   [] run_pc = "release_break" -> "report"
                   [] run_pc = "release_raise" -> "report_raise"
    /\ UNCHANGED <<new_conn, ops_done, warmup_cycles, completed, connVars, poolVars, threadVars,
                   statVars, outsideRun>>

\* while time.time() < end_time: the duration is over; the finally clause makes the report.
run_test_expire ==
    /\ client = "sync"
    /\ run_pc = "loop"
    /\ run_pc' = "report"
    /\ UNCHANGED <<new_conn, ops_done, warmup_cycles, completed, connVars, poolVars, threadVars,
                   statVars, outsideRun>>

\* A cycle begins: time.sleep(0.001), cycle_start, then get_connection.
run_test_cycle ==
    /\ client = "sync"
    /\ run_pc = "loop"
    /\ total_requests < MaxSamples
    /\ run_pc' = "get"
    /\ UNCHANGED <<new_conn, ops_done, warmup_cycles, completed, connVars, poolVars, threadVars,
                   statVars, outsideRun>>

\* _random_operation(conn) returns True; the finally clause of the cycle releases conn.
run_test_operation_ok(t, ms) ==
    /\ run_pc = "get"
    /\ pc[t] = "using"
    /\ conn[t] # None
    /\ test_connection(conn[t])
    /\ CountSuccess(ms)
    /\ run_pc' = "release_ok"
    /\ UNCHANGED <<client, cycles, jitter, percentiles, report>>
    /\ UNCHANGED <<new_conn, ops_done, warmup_cycles, completed, connVars, poolVars, threadVars,
                   outsideRun>>

\* _random_operation(conn) catches a ModbusException and returns False:
\* _handle_connection_error closes conn and sleeps 1 s.
run_test_operation_fail(t) ==
    /\ run_pc = "get"
    /\ pc[t] = "using"
    /\ conn[t] # None
    /\ CountFailure
    /\ sock' = Close(sock, conn[t])
    /\ healthy' = Dead(healthy, sock')
    /\ run_pc' = "handle_sleep"
    /\ UNCHANGED <<client, cycles, jitter, percentiles, report>>
    /\ UNCHANGED <<new_conn, ops_done, warmup_cycles, completed, kind, poolVars, threadVars,
                   outsideRun>>

\* The sleep is over: self.pool._create_connection() makes the replacement, or returns
\* None: then nothing is handed to the pool; `continue`, and the finally clause of the
\* cycle releases conn.
handle_connection_error_create(t) ==
    /\ run_pc = "handle_sleep"
    /\ \/ /\ CanAllocate
          /\ sock' = [sock EXCEPT ![FreshConn] = "open"]
          /\ healthy' = [healthy EXCEPT ![FreshConn] = TRUE]
          /\ kind' = [kind EXCEPT ![FreshConn] = FALSE]
          /\ new_conn' = FreshConn
          /\ run_pc' = "handle_release"
       \/ /\ run_pc' = "release_continue"
          /\ UNCHANGED <<new_conn, connVars>>
    /\ UNCHANGED <<ops_done, warmup_cycles, completed, poolVars, threadVars, statVars, outsideRun>>

\* self.pool.release_connection(new_conn): appended when there is room and the probe
\* passes, closed otherwise; `continue`, and the finally clause releases conn.
handle_connection_error_release(t) ==
    /\ run_pc = "handle_release"
    /\ lock_owner[lock] = None
    /\ IF Len(pool) < CONNECTION_POOL_SIZE /\ test_connection(new_conn)
       THEN /\ pool' = Append(pool, new_conn)
            /\ UNCHANGED sock
       ELSE /\ sock' = Close(sock, new_conn)
            /\ UNCHANGED pool
    /\ healthy' = Dead(healthy, sock')
    /\ new_conn' = None
    /\ run_pc' = "release_continue"
    /\ UNCHANGED <<ops_done, warmup_cycles, completed, kind, lock, lock_owner, threadVars,
                   statVars, outsideRun>>

\* _random_operation(conn) lets an exception through that is neither a ModbusException
\* nor a socket.timeout (on conn None the AttributeError of the call itself): run_test's
\* `except Exception` breaks the loop; the finally clause releases conn if there is one.
run_test_operation_raise(t) ==
    /\ run_pc = "get"
    /\ pc[t] = "using"
    /\ CountRequest
    /\ IF conn[t] = None
       THEN /\ run_pc' = "report"
            /\ pc' = [pc EXCEPT ![t] = "idle"]
       ELSE /\ run_pc' = "release_break"
            /\ UNCHANGED pc
    /\ UNCHANGED <<client, cycles, jitter, percentiles, report>>
    /\ UNCHANGED <<new_conn, ops_done, warmup_cycles, completed, connVars, poolVars, conn,
                   outsideRun>>

\* _random_operation(conn) lets a socket.timeout through: the handler calls
\* self.pool._clean_broken_connections(), which the pool does not define; the
\* AttributeError leaves the loop after the finally clause has released conn.
run_test_operation_timeout(t) ==
    /\ run_pc = "get"
    /\ pc[t] = "using"
    /\ conn[t] # None
    /\ CountRequest
    /\ run_pc' = "release_raise"
    /\ UNCHANGED <<client, cycles, jitter, percentiles, report>>
    /\ UNCHANGED <<new_conn, ops_done, warmup_cycles, completed, connVars, poolVars, threadVars,
                   outsideRun>>

\* The cycle control: _busy_wait_1ms() returns the time waited, which is recorded (with
\* the default timeout it cannot raise).
run_test_record_cycle(x) ==
    /\ client = "sync"
    /\ run_pc = "pace"
    /\ cycles' = Append(cycles, x)
    /\ run_pc' = "loop"
    /\ UNCHANGED <<client, total_requests, success_requests, failed_requests, latencies, jitter,
                   percentiles, report>>
    /\ UNCHANGED <<new_conn, ops_done, warmup_cycles, completed, connVars, poolVars, threadVars,
                   outsideRun>>

\* The endpoint drops or restores a session the pool or the worker holds.
worker_connection_change(t, c) ==
    /\ InPool(pool, c) \/ conn[t] = c \/ new_conn = c
    /\ link_change(c)
    /\ UNCHANGED <<obsVars, otherVars, persVars>>

\* async run_test begins: `client = await self.pool.get_connection()` returns a client,
\* or raises (the connect failed, or no client is connected after the retries): the
\* error leaves run_test.
async_run_test_start ==
    /\ client = "async"
    /\ run_pc = "idle"
    /\ \/ /\ run_pc' = "loop"
          /\ warmup_cycles' = WARMUP_CYCLES
          /\ completed' = 0
       \/ /\ run_pc' = "raised"
          /\ UNCHANGED <<warmup_cycles, completed>>
    /\ UNCHANGED <<new_conn, ops_done, connVars, poolVars, threadVars, statVars, outsideRun>>

\* while self._clock() < end_time: the duration is over; _generate_report() follows.
async_run_test_expire ==
    /\ client = "async"
    /\ run_pc = "loop"
    /\ run_pc' = "report"
    /\ UNCHANGED <<new_conn, ops_done, warmup_cycles, completed, connVars, poolVars, threadVars,
                   statVars, outsideRun>>

\* A cycle begins: cycle_start, and GATHER_SIZE operations are gathered.
async_run_test_cycle ==
    /\ client = "async"
    /\ run_pc = "loop"
    /\ completed < WARMUP_CYCLES + MaxSamples
    /\ run_pc' = "gather"
    /\ ops_done' = 0
    /\ UNCHANGED <<new_conn, warmup_cycles, completed, connVars, poolVars, threadVars, statVars,
                   outsideRun>>

async_operation_ok(ms) ==
    /\ run_pc = "gather"
    /\ ops_done' = ops_done + 1
    /\ run_pc' = IF ops_done + 1 = GATHER_SIZE THEN "pace" ELSE "gather"
    /\ CountSuccess(ms)
    /\ UNCHANGED <<client, cycles, jitter, percentiles, report>>
    /\ UNCHANGED <<new_conn, warmup_cycles, completed, connVars, poolVars, threadVars, outsideRun>>

async_operation_fail ==
    /\ run_pc = "gather"
    /\ ops_done' = ops_done + 1
    /\ run_pc' = IF ops_done + 1 = GATHER_SIZE THEN "pace" ELSE "gather"
    /\ failed_requests < MaxSamples
    /\ CountFailure
    /\ UNCHANGED <<client, cycles, jitter, percentiles, report>>
    /\ UNCHANGED <<new_conn, warmup_cycles, completed, connVars, poolVars, threadVars, outsideRun>>

\* An operation lets an exception through: the gather raises it to run_test, whose
\* handler logs it and calls get_connection again. (The operations of the gather still
\* in flight are left out from here on.)
async_operation_raise ==
    /\ run_pc = "gather"
    /\ total_requests - success_requests - failed_requests < MaxSamples
    /\ CountRequest
    /\ ops_done' = ops_done + 1
    /\ run_pc' = "reconnect"
    /\ UNCHANGED <<client, cycles, jitter, percentiles, report>>
    /\ UNCHANGED <<new_conn, warmup_cycles, completed, connVars, poolVars, threadVars, outsideRun>>

\* The get_connection of the handler returns a client, or raises, which leaves run_test.
async_run_test_reconnect ==
    /\ run_pc = "reconnect"
    /\ run_pc' \in {"pace", "raised"}
    /\ UNCHANGED <<new_conn, ops_done, warmup_cycles, completed, connVars, poolVars, threadVars,
                   statVars, outsideRun>>

\* The end of a cycle that records from the last warm-up cycle on.
async_run_test_cycle_end_early(x) ==
    /\ client = "async"
    /\ run_pc = "pace"
    /\ IF warmup_cycles <= 1
       THEN /\ cycles' = Append(cycles, x)
            /\ jitter' = Jitter(cycles', jitter)
            /\ UNCHANGED warmup_cycles
       ELSE /\ warmup_cycles' = warmup_cycles - 1
            /\ UNCHANGED <<cycles, jitter>>
    /\ completed' = completed + 1
    /\ run_pc' = "loop"
    /\ UNCHANGED <<client, total_requests, success_requests, failed_requests, latencies,
                   percentiles, report>>
    /\ UNCHANGED <<new_conn, ops_done, connVars, poolVars, threadVars, outsideRun>>

\* The end of a cycle (the cycle control never waits): with the warm-up used up
\* _update_cycle_stats records the cycle time x, else one warm-up cycle is counted down.
async_run_test_cycle_end(x) ==
    /\ client = "async"
    /\ run_pc = "pace"
    /\ IF warmup_cycles <= 0
       THEN /\ cycles' = Append(cycles, x)
            /\ jitter' = Jitter(cycles', jitter)
            /\ UNCHANGED warmup_cycles
       ELSE /\ warmup_cycles' = warmup_cycles - 1
            /\ UNCHANGED <<cycles, jitter>>
    /\ completed' = completed + 1
    /\ run_pc' = "loop"
    /\ UNCHANGED <<client, total_requests, success_requests, failed_requests, latencies,
                   percentiles, report>>
    /\ UNCHANGED <<new_conn, ops_done, connVars, poolVars, threadVars, outsideRun>>

\* ---------------------------------------------------------- specifications
\* The pool after the clients were constructed one after the other by one thread.
InitPool ==
    /\ sock = [c \in Conns |-> "none"]
    /\ healthy = [c \in Conns |-> FALSE]
    /\ kind = [c \in Conns |-> FALSE]
    /\ instance = 1
    /\ initialized = TRUE
    /\ pool_of = [t \in Threads |-> 1]
    /\ pool = <<>>
    /\ lock = 1
    /\ lock_owner = [l \in LockIds |-> None]
    /\ pc = [t \in Threads |-> "idle"]
    /\ conn = [t \in Threads |-> None]
    /\ size_before = -1
    /\ InitPersistent
    /\ InitAsync
    /\ InitSched
    /\ InitRunLoop

\* No client has run yet.
Init == InitPool /\ InitStats /\ InitMasters({ConfiguredProb})

\* One client at the start of its run, or after 100 successful operations.
InitRun ==
    /\ InitPool
    /\ InitMasters({ConfiguredProb})
    /\ client \in {"sync", "async"}
    /\ latencies \in {<<>>, Recorded100}
    /\ total_requests = Len(latencies)
    /\ success_requests = Len(latencies)
    /\ failed_requests = 0
    /\ cycles = <<>>
    /\ jitter = Zero
    /\ percentiles = <<0, 0, 0>>
    /\ report = NoReport

Next ==
    \/ \E t \in Threads : get_connection_enter(t) /\ UNCHANGED <<obsVars, otherVars, persVars>>
    \/ \E t \in Threads : create_connection_ok(t) /\ UNCHANGED <<obsVars, otherVars, persVars>>
    \/ \E t \in Threads : create_connection_fail(t) /\ UNCHANGED <<obsVars, otherVars, persVars>>
    \/ \E t \in Threads : release_connection_enter(t) /\ UNCHANGED <<obsVars, otherVars, persVars>>
    \/ \E t \in Threads : release_connection_probe(t) /\ UNCHANGED <<obsVars, otherVars, persVars>>
    \/ \E c \in Conns : link_change(c) /\ UNCHANGED <<obsVars, otherVars, persVars>>

Spec == Init /\ [][Next]_vars

\* Spec with the multi-master test's fault injection.
NextFault ==
    \/ \E t \in Threads : get_connection_enter(t) /\ UNCHANGED <<obsVars, otherVars, persVars>>
    \/ \E t \in Threads : create_connection_ok(t) /\ UNCHANGED <<obsVars, otherVars, persVars>>
    \/ \E t \in Threads : create_connection_fail(t) /\ UNCHANGED <<obsVars, otherVars, persVars>>
    \/ \E t \in Threads : release_connection_enter(t) /\ UNCHANGED <<obsVars, otherVars, persVars>>
    \/ \E t \in Threads : release_connection_probe(t) /\ UNCHANGED <<obsVars, otherVars, persVars>>
    \/ \E t \in Threads : close_all(t) /\ UNCHANGED <<obsVars, otherVars, persVars>>

SpecFault == Init /\ [][NextFault]_vars

\* Every pool state the worker threads can leave behind, then one caller alone.
InitSolo ==
    /\ \E k \in 0..CONNECTION_POOL_SIZE :
          /\ pool = [i \in 1..k |-> i]
          /\ sock = [c \in Conns |-> IF c <= k THEN "open" ELSE "none"]
          /\ healthy \in {h \in [Conns -> BOOLEAN] : \A c \in Conns : h[c] => c <= k}
    /\ kind = [c \in Conns |-> FALSE]
    /\ instance = 1
    /\ initialized = TRUE
    /\ pool_of = [t \in Threads |-> 1]
    /\ lock = 1
    /\ lock_owner = [l \in LockIds |-> None]
    /\ pc = [t \in Threads |-> "idle"]
    /\ conn = [t \in Threads |-> None]
    /\ size_before = -1
    /\ InitPersistent
    /\ InitAsync
    /\ InitSched
    /\ InitStats
    /\ InitMasters({ConfiguredProb})
    /\ InitRunLoop

NextSolo ==
    \/ get_connection_enter(SoloCaller) /\ size_before' = Len(pool) /\ UNCHANGED <<otherVars,
                                                                                   persVars>>
    \/ create_connection_ok(SoloCaller) /\ UNCHANGED <<obsVars, otherVars, persVars>>
    \/ create_connection_fail(SoloCaller) /\ UNCHANGED <<obsVars, otherVars, persVars>>
    \/ release_connection_enter(SoloCaller) /\ UNCHANGED <<obsVars, otherVars, persVars>>
    \/ release_connection_probe(SoloCaller) /\ UNCHANGED <<obsVars, otherVars, persVars>>
    \/ \E c \in Conns : link_change(c) /\ UNCHANGED <<obsVars, otherVars, persVars>>

SpecSolo == InitSolo /\ [][NextSolo]_vars

\* The persistent-connection manager called from the threads.
NextPersist ==
    \/ \E t \in Threads : get_persistent_connection_enter(t)
    \/ \E t \in Threads : persistent_connect_ok(t)
    \/ \E t \in Threads : persistent_connect_fail(t)
    \/ \E t \in Threads : persistent_sleep(t)
    \/ \E t \in Threads : check_persistent_connection(t)
    \/ \E t \in Threads : close_persistent_connection(t)
    \/ \E c \in Conns : link_change(c) /\ UNCHANGED <<obsVars, otherVars, persVars>>
    \/ \E d \in {15, 16} : tick(d)

SpecPersist == Init /\ [][NextPersist]_vars

\* Threads that each construct ModbusConnectionPool() and then use it.
InitCtor ==
    /\ sock = [c \in Conns |-> "none"]
    /\ healthy = [c \in Conns |-> FALSE]
    /\ kind = [c \in Conns |-> FALSE]
    /\ instance = None
    /\ initialized = FALSE
    /\ pool_of = [t \in Threads |-> None]
    /\ pool = <<>>
    /\ lock = None
    /\ lock_owner = [l \in LockIds |-> None]
    /\ pc = [t \in Threads |-> "start"]
    /\ conn = [t \in Threads |-> None]
    /\ size_before = -1
    /\ InitPersistent
    /\ InitAsync
    /\ InitSched
    /\ InitStats
    /\ InitMasters({ConfiguredProb})
    /\ InitRunLoop

NextCtor ==
    \/ \E t \in Threads : new(t) /\ UNCHANGED <<obsVars, otherVars, persVars>>
    \/ \E t \in Threads : init_check(t) /\ UNCHANGED <<obsVars, otherVars, persVars>>
    \/ \E t \in Threads : init_body(t) /\ UNCHANGED <<obsVars, otherVars, now, retry_count, sleeps,
                                                      ret>>
    \/ \E t \in Threads : get_connection_enter(t) /\ UNCHANGED <<obsVars, otherVars, persVars>>
    \/ \E t \in Threads : create_connection_ok(t) /\ UNCHANGED <<obsVars, otherVars, persVars>>
    \/ \E t \in Threads : release_connection_enter(t) /\ UNCHANGED <<obsVars, otherVars, persVars>>
    \/ \E t \in Threads : release_connection_probe(t) /\ UNCHANGED <<obsVars, otherVars, persVars>>

SpecCtor == InitCtor /\ [][NextCtor]_vars

\* The async pool used by the tasks, before any close_all.
NextAsyncInit ==
    \/ \E t \in Tasks : initialize(t)
    \/ \E t \in Tasks : async_get_connection(t)
    \/ \E t \in Tasks : initialize_locked(t)
    \/ \E t \in Tasks : async_create_connection_ok(t)
    \/ \E t \in Tasks : async_create_connection_fail(t)
    \/ \E t \in Tasks : get_connection_retry(t)
    \/ \E c \in Conns : connection_change(c)

SpecAsyncInit == Init /\ [][NextAsyncInit]_vars

\* The async pool with close_all.
NextAsync ==
    \/ \E t \in Tasks : initialize(t)
    \/ \E t \in Tasks : async_get_connection(t)
    \/ \E t \in Tasks : initialize_locked(t)
    \/ \E t \in Tasks : async_create_connection_ok(t)
    \/ \E t \in Tasks : async_create_connection_fail(t)
    \/ \E t \in Tasks : get_connection_retry(t)
    \/ \E t \in Tasks : async_close_all(t)
    \/ \E t \in Tasks : close_all_locked(t)
    \/ \E t \in Tasks : close_all_slot(t)
    \/ \E c \in Conns : connection_change(c)

SpecAsync == Init /\ [][NextAsync]_vars

\* The cycle schedulers of both clients and their busy waits.
NextSched ==
    \/ counter_tick
    \/ \E s \in {0, 1, 1000 * DEFAULT_TIMEOUT} : busy_wait_1ms(s)
    \/ busy_wait_1ms_poll
    \/ \E d \in {0, 2, 6} : busy_wait(d)
    \/ busy_wait_poll
    \/ run_test_sleep
    \/ run_test_begin
    \/ run_test_pace
    \/ async_run_test_begin
    \/ async_run_test_pace

SpecSched == Init /\ [][NextSched]_vars

\* The same with a clock that keeps advancing and a thread that keeps running.
SpecSchedFair ==
    /\ Init /\ [][NextSched]_vars
    /\ WF_vars(counter_tick)
    /\ WF_vars(busy_wait_1ms_poll)
    /\ WF_vars(busy_wait_poll)

\* The statistics of one client over a run and its report.
NextStats ==
    \/ \E ms \in LatencyValues : random_operation_ok(ms)
    \/ random_operation_fail
    \/ random_operation_raise
    \/ \E x \in CycleValues : record_cycle(x)
    \/ \E x \in CycleValues : update_cycle_stats(x)
    \/ generate_report
    \/ async_generate_report

SpecStats == InitRun /\ [][NextStats]_vars

NextMasters ==
    \/ coordinator_start
    \/ coordinator_join
    \/ \E t \in Threads : master_worker_expire(t)
    \/ \E t \in Threads, draw \in {0, 500, 999} : master_worker_disconnect(t, draw)
    \/ \E t \in Threads, draw \in {0, 500, 999} : master_worker_run_test(t, draw)

\* disconnect_prob is 0, 0.01 or 1.0 for each worker.
InitTest == InitPool /\ InitStats /\ InitMasters([Threads -> {0, 10, 1000}])

SpecMasters == InitTest /\ [][NextMasters]_vars

\* The same with a coordinator thread that keeps running.
SpecMastersFair ==
    /\ InitTest /\ [][NextMasters]_vars
    /\ WF_vars(coordinator_start)
    /\ WF_vars(coordinator_join)

Getting == run_pc \in {"trial_get", "get"}

NextWorker ==
    \/ run_test_start(SoloCaller)
    \/ Getting /\ get_connection_enter(SoloCaller) /\ UNCHANGED <<obsVars, otherVars, persVars>>
    \/ Getting /\ create_connection_ok(SoloCaller) /\ UNCHANGED <<obsVars, otherVars, persVars>>
    \/ Getting /\ create_connection_fail(SoloCaller) /\ UNCHANGED <<obsVars, otherVars, persVars>>
    \/ run_test_trial(SoloCaller)
    \/ /\ run_pc \in {"trial_release", "release_ok", "release_continue", "release_break", "release_raise"}
       /\ release_connection_enter(SoloCaller) \/ release_connection_probe(SoloCaller)
       /\ UNCHANGED <<obsVars, otherVars, persVars>>
    \/ run_test_released(SoloCaller)
    \/ run_test_expire
    \/ run_test_cycle
    \/ \E ms \in LatencyValues : run_test_operation_ok(SoloCaller, ms)
    \/ run_test_operation_fail(SoloCaller)
    \/ handle_connection_error_create(SoloCaller)
    \/ handle_connection_error_release(SoloCaller)
    \/ run_test_operation_raise(SoloCaller)
    \/ run_test_operation_timeout(SoloCaller)
    \/ \E x \in CycleValues : run_test_record_cycle(x)
    \/ run_pc \in {"report", "report_raise"} /\ generate_report
    \/ \E c \in Conns : worker_connection_change(SoloCaller, c)

\* The threaded client alone in its run_test. The pool's steps take their turn where
\* run_test calls them.
InitWorker == InitRun /\ client = "sync" /\ latencies = <<>>

SpecWorker == InitWorker /\ [][NextWorker]_vars

NextAsyncRun ==
    \/ async_run_test_start
    \/ async_run_test_expire
    \/ async_run_test_cycle
    \/ async_operation_ok(1)
    \/ async_operation_fail
    \/ async_operation_raise
    \/ async_run_test_reconnect
    \/ \E x \in CycleValues : async_run_test_cycle_end(x)
    \/ run_pc = "report" /\ async_generate_report

\* The asyncio client in its run_test.
InitAsyncRun == InitRun /\ client = "async" /\ latencies = <<>>

SpecAsyncRun == InitAsyncRun /\ [][NextAsyncRun]_vars

\* ------------------------------------------------------------------ claims
\* A release_connection(conn) call of thread t with a non-null conn returns in this step.
ReleaseReturns(t) ==
    /\ conn[t] # None
    /\ pc[t] \in {"using", "rel_probe"}
    /\ pc'[t] = "idle"

\* C1: under every interleaving of get_connection and release_connection by the worker
\* threads, the free collection never holds more than CONNECTION_POOL_SIZE connections.
C1_PoolWithinCapacity == Len(pool) <= CONNECTION_POOL_SIZE

\* The free collection is full and one more thread is about to release a live connection.
C1_Witness ==
    /\ Len(pool) = CONNECTION_POOL_SIZE
    /\ \E t \in Threads : pc[t] = "using" /\ conn[t] # None /\ test_connection(conn[t])

\* C2 (as stated): get_connection followed at once by release_connection of the same,
\* still healthy connection leaves the free collection as long as it was before the get,
\* whatever the pool state, the empty one included.
C2_RoundTripKeepsSize ==
    [][(ReleaseReturns(SoloCaller) /\ test_connection(conn[SoloCaller]))
          => Len(pool') = size_before]_vars

\* C2 (amended): the round trip keeps the length of a non-empty free collection; on an
\* empty one get_connection creates a connection, which the release adds: length 1.
C2_RoundTripAmended ==
    [][(ReleaseReturns(SoloCaller) /\ test_connection(conn[SoloCaller]))
          => Len(pool') = IF size_before = 0 THEN 1 ELSE size_before]_vars

\* The caller is back from a round trip on a full free collection, which is full again.
C2_Witness ==
    /\ pc[SoloCaller] = "idle"
    /\ size_before = CONNECTION_POOL_SIZE
    /\ Len(pool) = CONNECTION_POOL_SIZE

\* C3: get_connection never returns normally with an absent connection: on an empty free
\* collection it returns a connected Connection or raises after its connect attempts.
C3_GetNeverReturnsNone == \A t \in Threads : pc[t] = "using" => conn[t] # None

\* C4: when release_connection(conn) returns for a non-null conn, exactly one holds: conn
\* was appended to the free collection (only if the collection was below capacity and conn
\* passed the probe of this release), or conn is closed and not in the free collection.
C4_ReleaseAppendsOrCloses ==
    [][\A t \in Threads : ReleaseReturns(t) =>
          /\ (pool' = Append(pool, conn[t]) /\ sock'[conn[t]] = "open")
               # (sock'[conn[t]] = "closed" /\ ~InPool(pool', conn[t]) /\ pool' = pool)
          /\ InPool(pool', conn[t]) =>
               (Len(pool) < CONNECTION_POOL_SIZE /\ test_connection(conn[t]))]_vars

\* One released connection sits in the free collection and another release closed its own.
C4_Witness ==
    \E c, d \in Conns : InPool(pool, c) /\ sock[c] = "open" /\ sock[d] = "closed"

\* C5: no thread holds the free-collection lock while its transport round trip (the
\* connect of get_connection, the probe of release_connection) is in progress.
C5_NoRoundTripUnderLock ==
    \A t \in Threads : pc[t] \in {"get_connect", "rel_probe"} => ~\E l \in LockIds : lock_owner[l] = t

\* C6: every construction returns the one instance and the instance is initialised once:
\* a lock, once installed, is never replaced and no construction empties a free
\* collection that holds connections.
C6_InitialisedOnce ==
    [][/\ \A t, u \in Threads :
             (pool_of'[t] # None /\ pool_of'[u] # None) => pool_of'[t] = pool_of'[u]
       /\ lock # None => lock' = lock
       /\ \A t \in Threads : (pc[t] = "init_body" /\ pc'[t] = "idle") => pool' = pool]_vars

C8_OnePersistentSession == Cardinality({c \in Conns : kind[c] /\ sock[c] = "open"}) <= 1

\* C9: without a live persistent connection get_persistent_connection makes at most 3
\* attempts, sleeps 2^k seconds after the k-th failed one, returns the first connection
\* that is established and verified, and raises ConnectionError iff 3 attempts failed.
C9_BoundedBackoff ==
    [][\A t \in Threads : (pc[t] \in {"p_connect", "p_sleep"} /\ pc'[t] = "idle") =>
          /\ Len(sleeps') <= 3
          /\ sleeps' = [i \in 1..Len(sleeps') |-> 2 ^ i]
          /\ ret'.op = "get"
          /\ ret'.raised <=> (Len(sleeps') = 3 /\ retry_count[t] = 3)
          /\ ret'.raised => persistent_conn' = None
          /\ ~ret'.raised =>
                /\ retry_count[t] = Len(sleeps) /\ retry_count[t] < 3
                /\ ret'.conn # None /\ ret'.conn = persistent_conn'
                /\ sock[ret'.conn] = "none"
                /\ sock'[ret'.conn] = "open" /\ healthy'[ret'.conn] /\ kind'[ret'.conn]
                /\ last_heartbeat' = now']_vars

\* The third attempt succeeded, after sleeps of 2 and 4 seconds.
C9_Witness ==
    /\ ret.op = "get" /\ ~ret.raised
    /\ sleeps = <<2, 4>>
    /\ persistent_conn # None /\ persistent_conn = ret.conn

\* check_persistent_connection finds the heartbeat older than 30 s and the probe fails.
StaleAndBroken ==
    /\ persistent_conn # None
    /\ now - last_heartbeat > 30
    /\ ~test_connection(persistent_conn)

\* C10 (as stated): check_persistent_connection, run more than 30 s after the last
\* heartbeat with a connection that fails the probe, closes it, installs a rebuilt live
\* connection and refreshes the heartbeat: on return a live connection is held.
C10_RecoveryHoldsLive ==
    [][\A t \in Threads : (StaleAndBroken /\ check_persistent_connection(t)) =>
          /\ sock'[persistent_conn] = "closed"
          /\ persistent_conn' # None /\ persistent_conn' # persistent_conn
          /\ sock'[persistent_conn'] = "open" /\ healthy'[persistent_conn']
          /\ last_heartbeat' = now']_vars

\* C10 (amended): it closes the old connection, installs what one rebuild attempt gives
\* (a new live connection, or none when the attempt fails), refreshes the heartbeat and
\* returns whether a connection is held.
C10_RecoveryAmended ==
    [][\A t \in Threads : (StaleAndBroken /\ check_persistent_connection(t)) =>
          /\ sock'[persistent_conn] = "closed"
          /\ last_heartbeat' = now'
          /\ ret'.op = "check" /\ ret'.recovered
          /\ \/ persistent_conn' = None /\ ~ret'.ok
             \/ /\ persistent_conn' # None /\ persistent_conn' # persistent_conn
                /\ sock[persistent_conn'] = "none"
                /\ sock'[persistent_conn'] = "open" /\ healthy'[persistent_conn'] /\ kind'[persistent_conn']
                /\ ret'.ok]_vars

\* A recovery has rebuilt the connection: the call returned True and a live connection
\* with a current heartbeat is held.
C10_Witness ==
    /\ ret.op = "check" /\ ret.recovered /\ ret.ok
    /\ persistent_conn # None /\ persistent_conn = ret.conn
    /\ test_connection(persistent_conn)
    /\ last_heartbeat = now
    /\ \E c \in Conns : kind[c] /\ sock[c] = "closed"

\* C11: close_persistent_connection leaves no persistent connection held; called when
\* none is held (a repeated call, or no connection yet) it changes nothing, closes no
\* session and returns without raising; called with one held it closes that session only.
C11_CloseIdempotent ==
    [][\A t \in Threads : close_persistent_connection(t) =>
          /\ persistent_conn' = None
          /\ ret'.op = "close" /\ ~ret'.raised
          /\ persistent_conn = None => UNCHANGED <<connVars, persistent_conn, persistent_lock,
                                                   last_heartbeat>>
          /\ persistent_conn # None =>
                /\ sock'[persistent_conn] = "closed"
                /\ \A c \in Conns \ {persistent_conn} : sock'[c] = sock[c]]_vars

\* close_persistent_connection has returned after the held connection was closed.
C11_Witness ==
    /\ ret.op = "close"
    /\ persistent_conn = None
    /\ \E c \in Conns : kind[c] /\ sock[c] = "closed"

\* The transport sessions created so far.
Created == {c \in Conns : sock[c] # "none"}

\* C12 (as stated): however many initialize() calls run, one after the other or in
\* concurrent tasks, exactly CONNECTION_POOL_SIZE connections are created in total and
\* none by later calls (no close_all in between).
C12_OneInitialisation ==
    /\ Cardinality(Created) <= CONNECTION_POOL_SIZE
    /\ async_initialized => Cardinality(Created) = CONNECTION_POOL_SIZE

\* C12 (amended): at most one initialization completes: only the holder of the lock
\* builds, the pool is empty until a build has made all CONNECTION_POOL_SIZE clients and
\* holds exactly those afterwards, and once it is initialized no call creates a
\* connection or changes the list; a build whose connect fails raises and leaves the
\* pool uninitialized, so that a later call builds again.
C12_OneInitialisationAmended ==
    [][/\ \A t \in Tasks : task_pc[t] = "init_build" => async_lock = t /\ ~async_initialized
       /\ ~async_initialized => connections = <<>>
       /\ async_initialized =>
             /\ Len(connections) = CONNECTION_POOL_SIZE
             /\ \A i, j \in DOMAIN connections :
                   connections[i] \in Created /\ (i # j => connections[i] # connections[j])
             /\ async_initialized' /\ connections' = connections
             /\ \A c \in Conns : sock[c] = "none" => sock'[c] = "none"
       /\ \A t \in Tasks :
             (task_pc[t] = "init_build" /\ task_pc'[t] = "idle" /\ async_ret' = "connect")
                 => ~async_initialized' /\ connections' = <<>> /\ async_lock' = None
       /\ (~async_initialized /\ async_initialized') =>
             /\ Len(building) = CONNECTION_POOL_SIZE - 1
             /\ \E c \in Conns : sock[c] = "none" /\ connections' = Append(building, c)]_vars

\* Two initialize() calls have returned on an initialized pool of CONNECTION_POOL_SIZE
\* clients, no more than those were created, and no task is left waiting.
C12_Witness ==
    /\ async_initialized
    /\ Len(connections) = CONNECTION_POOL_SIZE
    /\ Cardinality(Created) = CONNECTION_POOL_SIZE
    /\ async_ret = "none"
    /\ \A t \in Tasks : task_pc[t] = "idle"

\* C32: initialize() leaks no connection: every session it has opened is in the pool's
\* slots, or in the list a build in progress is making, or it has been closed; so also
\* after a build that ended with an error.
C32_InitializeLeaksNothing ==
    \A c \in Conns :
        sock[c] = "open" =>
            \/ InPool(connections, c)
            \/ \E t \in Tasks : task_pc[t] = "init_build" /\ InPool(building, c)

\* C13: get_connection, when its scan finds no connected client, sleeps and runs the
\* initialization again so that replacement connections are created; it raises the
\* exhaustion error only after such rebuilds were made.
C13_RebuildsBeforeFailing ==
    [][\A t \in Tasks :
          (task_pc[t] \in {"sleep", "init_lock"} /\ task_pc'[t] = "idle" /\ async_ret' = "exhausted")
              => rebuilds[t] > 0]_vars

\* C14: close_all raises nothing and handles each slot by itself: a connected client is
\* closed (or its close() raised and was logged), no other session is touched, the slot
\* is cleared and the loop goes on to the next slot whatever the slot held and whatever
\* close() did; after the last slot the pool is empty, uninitialized and unlocked.
C14_CloseAllTolerant ==
    [][\A t \in Tasks : (task_pc[t] = "closing" /\ (task_pc'[t] # "closing" \/ close_index' # close_index)) =>
          LET c == connections[close_index]
          IN  /\ async_ret' # "close"
              /\ \A d \in Conns \ {c} : sock'[d] = sock[d]
              /\ IF close_index < Len(connections)
                 THEN /\ task_pc'[t] = "closing"
                      /\ close_index' = close_index + 1
                      /\ connections' = [connections EXCEPT ![close_index] = None]
                      /\ (c # None /\ connected(sock, healthy, c))
                            => (sock'[c] = "closed" \/ close_error' = close_index)
                 ELSE /\ task_pc'[t] = "idle"
                      /\ connections' = <<>>
                      /\ ~async_initialized'
                      /\ async_lock' = None
                      /\ async_ret' = "none"]_vars

\* close_all is at its last slot after the close() of the slot before raised and left
\* that session open, and the client of the first slot was closed.
C14_Witness ==
    /\ \E t \in Tasks : task_pc[t] = "closing"
    /\ close_index = CONNECTION_POOL_SIZE
    /\ close_error = CONNECTION_POOL_SIZE - 1
    /\ connections[close_index] # None
    /\ \E c, d \in Conns : c < d /\ d < connections[close_index]
                               /\ sock[c] = "closed" /\ sock[d] = "open" /\ healthy[d]

\* The busy wait has ended the way its function ends: by returning with the target
\* reached, or by TimeoutError with more than the timeout gone by.
WaitEnded ==
    \/ wait.state = "returned" /\ counter - wait.start >= wait.delay
    \/ /\ wait.state = "timeout"
       /\ wait.fn = "busy_wait_1ms"
       /\ (counter - wait.start) * 1000 > wait.timeout * frequency

\* C15: with the clock advancing every busy wait ends, by returning once the target is
\* reached or by TimeoutError once more than the timeout has gone by.
C15_BusyWaitTerminates ==
    /\ (wait.state = "spinning") ~> WaitEnded
    /\ [](wait.state \in {"returned", "timeout"} => WaitEnded)

\* A _busy_wait_1ms has returned after the clock reached its target.
C15_Witness ==
    /\ wait.fn = "busy_wait_1ms"
    /\ wait.state = "returned"
    /\ counter = wait.start + OneMs
    /\ wait.timeout = 1000 * DEFAULT_TIMEOUT

\* C31: _busy_wait_1ms called with a timeout of at least 1 ms never raises TimeoutError:
\* it is never in its timeout state, a pass that finds the target reached returns
\* whatever the elapsed time is, and with the clock advancing the call ends by returning
\* with at least 1 ms waited.
C31_NoTimeoutFromOneMs ==
    /\ []((wait.fn = "busy_wait_1ms" /\ wait.timeout >= 1) => wait.state # "timeout")
    /\ [][(busy_wait_1ms_poll /\ wait.timeout >= 1 /\ counter >= wait.start + OneMs)
             => wait'.state = "returned"]_vars
    /\ (wait.fn = "busy_wait_1ms" /\ wait.timeout >= 1 /\ wait.state = "spinning")
           ~> (wait.state = "returned" /\ counter - wait.start >= OneMs)

\* A _busy_wait_1ms with a timeout of exactly 1 ms has returned, found at its first look
\* after more than the timeout had gone by.
C31_Witness ==
    /\ wait.fn = "busy_wait_1ms"
    /\ wait.timeout = 1
    /\ wait.state = "returned"
    /\ (counter - wait.start) * 1000 > wait.timeout * frequency

\* C16: a cycle whose work took the target cycle duration or longer goes on to the next
\* cycle with no wait added: no busy wait is started and no sleep is entered.
C16_NoWaitWhenLate ==
    [][(cycle.phase = "work" /\ cycle'.phase # "work" /\ counter - cycle.start >= BUSY_WAIT_PRECISION)
          => (cycle'.phase = "idle" /\ wait' = wait)]_vars

\* The index int(n * k / 100) is inside data, and p is the element of that rank: no more
\* than the index elements are below p and more than the index are at most p.
RankedAt(data, k, p) ==
    LET n == Len(data)
        idx == (n * k) \div 100
    IN  /\ idx < n
        /\ \E i \in DOMAIN data : data[i] = p
        /\ Cardinality({i \in DOMAIN data : data[i] < p}) <= idx
        /\ idx < Cardinality({i \in DOMAIN data : data[i] <= p})

\* C17: for a non-empty latency list of length n the percentiles are the elements of
\* rank floor(n * k), k = 0.50, 0.95, 0.99, of the sorted list, the rank being inside
\* the list; for the latencies 1..100 they are sorted[50], sorted[95], sorted[99], that
\* is 51, 96 and 100.
C17_FloorIndexPercentiles ==
    (client = "async" /\ report.made /\ latencies # <<>>) =>
        /\ RankedAt(latencies, 50, percentiles[1])
        /\ RankedAt(latencies, 95, percentiles[2])
        /\ RankedAt(latencies, 99, percentiles[3])
        /\ latencies = Recorded100 => percentiles = <<51, 96, 100>>

\* The report of the run of latencies 1..100 has been made.
C17_Witness ==
    /\ client = "async" /\ report.made /\ ~report.raised
    /\ latencies = Recorded100
    /\ percentiles = <<51, 96, 100>>

\* C18: with all cycle durations equal, the jitter is exactly 0 after every update and
\* in the report.
C18_ConstantCyclesNoJitter ==
    (\A i, j \in DOMAIN cycles : cycles[i] = cycles[j]) =>
        /\ jitter = Zero
        /\ report.made => report.jitter = Zero

\* C19: the report of a run without any operation and any cycle is made without an
\* error and gives 0 for every derived metric.
C19_EmptyRunReport ==
    (report.made /\ total_requests = 0 /\ cycles = <<>>) =>
        /\ ~report.raised
        /\ report = [NoReport EXCEPT !.made = TRUE]
        /\ percentiles = <<0, 0, 0>>

\* C20: every operation carried out, answered or failed, has added one latency sample:
\* the combined list is as long as the request count.
C20_SamplePerOperation == Len(latencies) = total_requests

\* C24: the success count goes up by one exactly with an operation whose transport call
\* completed, the failure count exactly with one whose call raised, so that after a run
\* they count the completed and the errored calls (no failure with a transport that
\* always answers, a third of the total with one that errors on every third call).
C24_CountsMatchOutcomes ==
    [][/\ (\E ms \in LatencyValues : random_operation_ok(ms)) =>
              (success_requests' = success_requests + 1 /\ failed_requests' = failed_requests)
       /\ (random_operation_fail \/ random_operation_raise) =>
              (failed_requests' = failed_requests + 1 /\ success_requests' = success_requests)]_vars

\* C25: a connection handed out is leased to that caller alone: the client get_connection
\* returns to a task is from then on out of the collection the pool hands out from.
C25_ExclusiveLease ==
    [][\A t \in Tasks :
          (/\ task_pc'[t] = "idle"
           /\ async_ret' = "none"
           /\ \/ async_get_connection(t)
              \/ call[t] = "get_connection" /\ task_pc[t] # "idle") =>
          ~InPool(connections', FirstConnected(connections', sock', healthy'))]_vars

\* C26: a cycle of the async run loop is never shorter than the target: work that took
\* less is followed by a wait for the rest.
C26_ShortCyclePadded ==
    [][(cycle.variant = "async" /\ cycle.phase # "idle" /\ cycle'.phase = "idle")
          => counter - cycle.start >= BUSY_WAIT_PRECISION]_vars

\* C30: every request counted is counted as a success or as a failure.
C30_TotalIsSuccessPlusFailure == total_requests = success_requests + failed_requests

\* C22: with disconnect_prob 1.0 every iteration of a worker closes all connections of
\* the pool and then sleeps the reconnect delay before it goes on; with disconnect_prob 0
\* no iteration closes anything or sleeps a reconnect delay.
C22_DisconnectEveryIteration ==
    [][\A t \in Threads : (worker[t] = "loop" /\ worker'[t] \notin {"loop", "done"}) =>
          /\ disconnect_prob[t] = 1000 =>
                /\ worker'[t] = "reconnect_sleep"
                /\ pool' = <<>>
                /\ \A c \in Conns : InPool(pool, c) => sock'[c] = "closed"
          /\ disconnect_prob[t] = 0 =>
                /\ worker'[t] # "reconnect_sleep"
                /\ UNCHANGED <<pool, sock>>]_vars

\* C23: the coordinator waits on a worker only after it has started them all and returns
\* only after all have ended; the end of a worker, by error or not, changes no other
\* worker and not the coordinator; and once every worker has ended the coordinator
\* returns.
C23_CoordinatorJoinsAll ==
    /\ [](coordinator.phase # "start" => \A t \in Threads : worker[t] # "unstarted")
    /\ [](coordinator.phase = "returned" => \A t \in Threads : Terminated(t))
    /\ [][\A t \in Threads : (~Terminated(t) /\ worker'[t] \in {"done", "error"}) =>
             /\ coordinator' = coordinator
             /\ \A u \in Threads \ {t} : worker'[u] = worker[u]]_vars
    /\ (\A t \in Threads : Terminated(t)) ~> (coordinator.phase = "returned")

\* The test function has returned after a worker ended with an error and another by
\* the end of its duration.
C23_Witness ==
    /\ coordinator.phase = "returned"
    /\ \E t, u \in Threads : worker[t] = "error" /\ worker[u] = "done"

\* An operation of the threaded worker t fails.
OperationFails(t) ==
    \/ run_test_operation_fail(t)
    \/ run_test_operation_raise(t)
    \/ run_test_operation_timeout(t)

\* C21: a failed operation is counted as a failure and the loop goes on with its cycles.
C21_FailureKeepsLoop ==
    [][\A t \in Threads : OperationFails(t) =>
          /\ failed_requests' = failed_requests + 1
          /\ run_pc' \notin {"release_break", "release_raise", "report", "report_raise", "raised"}]_vars

\* C27: after n completed cycles of the async loop there are max(0, n - 10) cycle
\* records, and the records and the jitter change only at the end of a cycle after the
\* tenth.
C27_WarmupExcluded ==
    /\ [](client = "async" =>
             Len(cycles) = IF completed > WARMUP_CYCLES THEN completed - WARMUP_CYCLES ELSE 0)
    /\ [][(client = "async" /\ (cycles' # cycles \/ jitter' # jitter)) =>
             (completed >= WARMUP_CYCLES /\ completed' = completed + 1)]_vars

\* The twelfth cycle has ended and two cycles are recorded.
C27_Witness ==
    /\ client = "async"
    /\ completed = WARMUP_CYCLES + 2
    /\ Len(cycles) = 2
    /\ warmup_cycles = 0

\* C28: a failed operation of the threaded worker closes the broken connection, one
\* replacement is created and handed to the pool, a closed connection is never in the
\* free collection, and the loop goes on.
C28_ReplaceBrokenConnection ==
    [][\A t \in Threads :
          /\ (OperationFails(t) /\ conn[t] # None) =>
                (sock'[conn[t]] = "closed" /\ run_pc' = "handle_sleep")
          /\ (run_pc = "handle_sleep" /\ run_pc' # "handle_sleep") =>
                (run_pc' = "handle_release" /\ new_conn' # None)
          /\ (run_pc = "handle_release" /\ run_pc' # "handle_release") =>
                (InPool(pool', new_conn) /\ run_pc' \notin {"release_break", "release_raise", "report", "report_raise", "raised"})
          /\ \A c \in Conns : InPool(pool', c) => sock'[c] # "closed"]_vars

\* C29: when get_connection supplies no connection the worker does not end: it asks
\* the pool again.
C29_NoConnectionKeepsLoop ==
    [][(Getting /\ pc[SoloCaller] = "using" /\ conn[SoloCaller] = None /\ run_pc' # run_pc)
          => run_pc' \in {"get", "loop"}]_vars

====
